---- MODULE Spec2Model ----
(***************************************************************************)
(* A model of the literature-review scripts: add_paper.py, the ZoteroAPI   *)
(* client of zotero_api.py and its command-line entry point, the two       *)
(* metadata fetchers (CrossRef, PubMed), call_zotero_mcp.py, and the       *)
(* scripts that work on local files: standardize_filenames.py,             *)
(* cleanup_source_files.py, split_claims.py and                            *)
(* extract_zotero_fulltexts.py.                                            *)
(*                                                                         *)
(* Spec has the runs of add_paper.py and zotero_api.py, SpecRemote adds    *)
(* call_zotero_mcp.py to them, SpecFiles has the two scripts of the        *)
(* ExtractedText directory, SpecSplit has split_claims.py, SpecExtract has *)
(* extract_zotero_fulltexts.py, and SpecPure applies the pure functions to *)
(* bounded inputs.                                                         *)
(*                                                                         *)
(* Text is a sequence of one-character strings, so that the code's string  *)
(* operations (split, strip, join, formatting) are computed and not        *)
(* assumed.  A Python dict is a function whose DOMAIN is the set of its    *)
(* keys; a Python list is a sequence.                                      *)
(***************************************************************************)
EXTENDS Integers, Sequences, FiniteSets, TLC

VARIABLES
    script,      \* which script runs (or "library": the client called directly)
    pc,          \* position of the run
    env,         \* process environment: a dict of the variables that are set
    args,        \* parsed command-line flags: a dict of the flags given
    kwargs,      \* add_paper.py main's kwargs dict (the merged record)
    call,        \* the ZoteroAPI call in progress (item_data, collection keys)
    net,         \* every network request of this run, in order
    out,         \* what the run has printed (message tags, in order)
    exitStatus,  \* Running, or the exit status of the process
    runs,        \* number of runs started so far (repeated invocation)
    remote,      \* number of records the Zotero service has created (under
                 \* SpecExtract: the items of the collection in Zotero)
    reported,    \* number of runs that were told their paper was added
    pIn,         \* input of the pure-function specifications
    pOut,        \* result of the pure function applied to pIn
    fs,          \* the local files: a dict from path to content
    fsAtStart,   \* the local files as they were when the current run started
    locals       \* local variables of the running main (loop position, counts)

vars == <<script, pc, env, args, kwargs, call, net, out, exitStatus,
          runs, remote, reported, pIn, pOut, fs, fsAtStart, locals>>

runVars == <<script, pc, env, args, kwargs, call, net, out, exitStatus,
             runs, remote, reported>>

pureVars == <<pIn, pOut>>

fileVars == <<fs, fsAtStart, locals>>

(***************************************************************************)
(* Python values                                                           *)
(***************************************************************************)

\* Python's None where text is expected: a one-element sequence whose element
\* is no character, so it differs from every text.
None == <<"<None>">>

\* Python truthiness of an optional text: None and "" are false.
Truthy(v) == v # None /\ v # <<>>

\* The empty dict.
EmptyDict == [k \in {} |-> <<>>]

\* dict.update / {**a, **b}: the keys of b override those of a.
Update(a, b) ==
    [k \in (DOMAIN a) \cup (DOMAIN b) |-> IF k \in DOMAIN b THEN b[k] ELSE a[k]]

\* d.get(k, default)
Get(d, k, default) == IF k \in DOMAIN d THEN d[k] ELSE default

\* All sequences over S of length lo..hi.
SeqsOf(S, lo, hi) == UNION {[1..n -> S] : n \in lo..hi}

\* The dicts that have key k with a value of vs, or do not have k.
Opt(k, vs) == {EmptyDict} \cup {[x \in {k} |-> v] : v \in vs}

(***************************************************************************)
(* Python string operations, on sequences of characters                    *)
(***************************************************************************)

IsSpace(c) == c = " "

\* s[i:j] with 1-based inclusive bounds; empty when i > j.
Slice(s, i, j) == IF i > j THEN <<>> ELSE SubSeq(s, i, j)

\* sep in s, for a one-character sep
Contains(s, c) == \E i \in 1..Len(s) : s[i] = c

\* Index of the first occurrence of c in s, 0 when there is none.
FirstIndex(s, c) ==
    IF Contains(s, c)
    THEN CHOOSE i \in 1..Len(s) : s[i] = c /\ \A j \in 1..(i-1) : s[j] # c
    ELSE 0

\* str.split(c): cut at every c; "" gives [""].
RECURSIVE Split(_, _)
Split(s, c) ==
    LET i == FirstIndex(s, c)
    IN IF i = 0 THEN <<s>>
       ELSE <<Slice(s, 1, i-1)>> \o Split(Slice(s, i+1, Len(s)), c)

\* str.split(c, 1): cut at the first c only.
SplitOnce(s, c) ==
    LET i == FirstIndex(s, c)
    IN IF i = 0 THEN <<s>>
       ELSE <<Slice(s, 1, i-1), Slice(s, i+1, Len(s))>>

RECURSIVE LStrip(_)
LStrip(s) == IF s # <<>> /\ IsSpace(Head(s)) THEN LStrip(Tail(s)) ELSE s

RECURSIVE RStrip(_)
RStrip(s) ==
    IF s # <<>> /\ IsSpace(s[Len(s)]) THEN RStrip(Slice(s, 1, Len(s)-1)) ELSE s

\* str.strip()
Strip(s) == RStrip(LStrip(s))

\* Length of the leading run of non-space characters of s.
RECURSIVE WordLen(_)
WordLen(s) == IF s = <<>> \/ IsSpace(Head(s)) THEN 0 ELSE 1 + WordLen(Tail(s))

\* str.split(): the whitespace-separated words, no empty ones.
RECURSIVE SplitWs(_)
SplitWs(s) ==
    LET t == LStrip(s)
        n == WordLen(t)
    IN IF t = <<>> THEN <<>>
       ELSE <<Slice(t, 1, n)>> \o SplitWs(Slice(t, n+1, Len(t)))

\* sep.join(parts)
RECURSIVE Join(_, _)
Join(parts, sep) ==
    IF parts = <<>> THEN <<>>
    ELSE IF Len(parts) = 1 THEN parts[1]
    ELSE parts[1] \o sep \o Join(Tail(parts), sep)

(***************************************************************************)
(* ZoteroAPI._parse_authors_and_create_article: the author-string parser   *)
(***************************************************************************)

Creator(last, first) ==
    [creatorType |-> "author", lastName |-> last, firstName |-> first]

\* "Last, First": split at the first comma, strip both parts.
ParseCommaAuthor(author) ==
    LET parts == SplitOnce(author, ",")
    IN Creator(Strip(parts[1]), IF Len(parts) > 1 THEN Strip(parts[2]) ELSE <<>>)

\* Mutant: the first word is taken as the last name.
ParseSpaceAuthor_FirstWordIsLast(author) ==
    LET parts == SplitWs(author)
    IN IF Len(parts) >= 2
       THEN Creator(parts[1], Join(Tail(parts), <<" ">>))
       ELSE Creator(author, <<>>)

\* "First Last": the last word is the last name; a single (or no) word is
\* a last name with an empty first name.
ParseSpaceAuthor(author) ==
    LET parts == SplitWs(author)
    IN IF Len(parts) >= 2
       THEN Creator(parts[Len(parts)],
                    Join(SubSeq(parts, 1, Len(parts)-1), <<" ">>))
       ELSE Creator(author, <<>>)

\* Mutant: the segment is not stripped.
ParseAuthor_NoStrip(segment) ==
    IF Contains(segment, ",")
    THEN ParseCommaAuthor(segment)
    ELSE ParseSpaceAuthor(segment)

\* One segment of the author string.
ParseAuthor(segment) ==
    LET author == Strip(segment)
    IN IF Contains(author, ",")
       THEN ParseCommaAuthor(author)
       ELSE ParseSpaceAuthor(author)

\* authors.split(';'), one creator per segment.
ParseAuthors(authors) ==
    LET segs == Split(authors, ";")
    IN [i \in 1..Len(segs) |-> ParseAuthor(segs[i])]

(***************************************************************************)
(* add_paper.py: the metadata fetchers, as functions of the response body  *)
(***************************************************************************)

\* The digit characters, for str() of a number.
Digit(d) == <<"0", "1", "2", "3", "4", "5", "6", "7", "8", "9">>[d + 1]

\* str(n) for a natural number n.
RECURSIVE Str(_)
Str(n) == IF n < 10 THEN <<Digit(n)>> ELSE Str(n \div 10) \o <<Digit(n % 10)>>

\* A JSON null inside a date-parts list (date parts are numbers otherwise).
NullPart == -1

\* The outcome of a call: a returned value or a raised exception.
Returned(v) == [exc |-> "none", value |-> v]
Raised(e) == [exc |-> e, value |-> EmptyDict]

\* Mutant: the given name is written first.
FormatCreator_GivenFirst(creator) ==
    creator["given"] \o <<",", " ">> \o creator["family"]

\* f"{creator['family']}, {creator['given']}"
FormatCreator(creator) == creator["family"] \o <<",", " ">> \o creator["given"]

\* The loop over item.get('author', []): only creators that have both a
\* given and a family name are kept.
RECURSIVE CrossrefAuthorsList(_)
CrossrefAuthorsList(creators) ==
    IF creators = <<>> THEN <<>>
    ELSE LET c == Head(creators)
         IN (IF "given" \in DOMAIN c /\ "family" \in DOMAIN c
             THEN <<FormatCreator(c)>> ELSE <<>>)
            \o CrossrefAuthorsList(Tail(creators))

\* item.get('published', {}).get('date-parts', [[None]])
CrossrefDateParts(item) ==
    Get(Get(item, "published", EmptyDict), "date-parts", <<<<NullPart>>>>)

\* str(date_parts[0]) if date_parts and date_parts[0] else None
CrossrefDate(date_parts) ==
    IF date_parts # <<>> /\ date_parts[1] # NullPart /\ date_parts[1] # 0
    THEN Str(date_parts[1]) ELSE None

\* abstract and not ('<' in abstract and '>' in abstract)
AbstractKept(abstract) ==
    abstract # <<>> /\ ~(Contains(abstract, "<") /\ Contains(abstract, ">"))

\* get_crossref_metadata, given the JSON body of the response.
GetCrossrefMetadata(doi, data) ==
    IF "message" \notin DOMAIN data THEN Raised("KeyError")
    ELSE LET item == data["message"]
             titles == Get(item, "title", <<<<>>>>)
             parts == CrossrefDateParts(item)
             journals == Get(item, "container-title", <<<<>>>>)
             abstract == Get(item, "abstract", <<>>)
             result == [title |-> titles[1],
                        authors |-> Join(CrossrefAuthorsList(Get(item, "author", <<>>)),
                                         <<";", " ">>),
                        date |-> CrossrefDate(parts[1]),
                        publicationTitle |-> journals[1],
                        DOI |-> doi]
         IN IF titles = <<>> \/ parts = <<>> \/ journals = <<>>
            THEN Raised("IndexError")
            ELSE Returned(IF AbstractKept(abstract)
                          THEN Update(result, [abstractNote |-> abstract])
                          ELSE result)

\* The loop over result.get('authors', []): f"{author['name']}"
PubmedAuthorsList(authors) == [i \in 1..Len(authors) |-> authors[i]["name"]]

\* pub_date.split(' ')[0] if pub_date else None
PubmedYear(pub_date) ==
    IF pub_date # <<>> THEN Split(pub_date, " ")[1] ELSE None

\* get_pubmed_metadata, given the JSON body of the response.
GetPubmedMetadata(pmid, data) ==
    IF "result" \notin DOMAIN data \/ pmid \notin DOMAIN data["result"]
    THEN Raised("KeyError")
    ELSE LET result == data["result"][pmid]
             authors == Get(result, "authors", <<>>)
         IN IF \E i \in 1..Len(authors) : "name" \notin DOMAIN authors[i]
            THEN Raised("KeyError")
            ELSE Returned([title |-> Get(result, "title", <<>>),
                           authors |-> Join(PubmedAuthorsList(authors), <<";", " ">>),
                           date |-> PubmedYear(Get(result, "pubdate", <<>>)),
                           publicationTitle |-> Get(result, "source", <<>>),
                           PMID |-> pmid])

(***************************************************************************)
(* The runs: add_paper.py, zotero_api.py's entry point, and direct use of  *)
(* the ZoteroAPI client                                                    *)
(***************************************************************************)

\* exitStatus of a process that has not exited.
Running == -1

\* How many times the same command line is invoked.
MaxRuns == 2

\* Collections of the remote library, as the collections GET lists them.
Coll(key, name) == [key |-> key, data |-> [name |-> name]]

CollectionLists ==
    { <<>>,
      <<Coll("K1", <<"O">>)>>,
      <<Coll("K1", <<"O">>), Coll("K2", <<"B">>)>>,
      <<Coll("K2", <<"B">>), Coll("K3", <<"B">>)>>,
      <<[key |-> "K4"], Coll("K5", <<"b">>)>> }

\* for coll in collections: if coll.get('data', {}).get('name') == name
MatchingIndexes(collections, name) ==
    {i \in 1..Len(collections) :
        Get(Get(collections[i], "data", EmptyDict), "name", None) = name}

\* Python's None where a collection is expected.
NoCollection == "<None>"

\* get_collection_by_name, given the listed collections: the key of the first
\* collection with that name, None when there is none.
CollectionKeyByName(collections, name) ==
    LET hits == MatchingIndexes(collections, name)
    IN IF hits = {} THEN NoCollection
       ELSE collections[CHOOSE i \in hits : \A j \in hits : i <= j].key

\* A request as sent: no response yet.
Request(svc, method, path, payload) ==
    [svc |-> svc, method |-> method, path |-> path, payload |-> payload,
     status |-> "pending", response |-> <<>>]

\* Mutant: the script goes on although the request is still unanswered.
Answered_StillPending(status, response) == net

\* The request log with the response to the last request filled in.
Answered(status, response) ==
    [net EXCEPT ![Len(net)] = [@ EXCEPT !.status = status, !.response = response]]

\* The process ends.
Exit(status, msgs, n) ==
    /\ pc' = "exited"
    /\ exitStatus' = status
    /\ out' = out \o msgs
    /\ net' = n

\* requests.get / requests.post: the run blocks until the response.
Send(req, await, msgs, n) ==
    /\ pc' = await
    /\ exitStatus' = exitStatus
    /\ out' = out \o msgs
    /\ net' = Append(n, req)

\* Mutant: the collections field is set even for an empty key list.
CreateItemData_AlwaysCollections(item_data, collection_keys) ==
    Update(item_data, [collections |-> collection_keys])

\* Mutant: the POST is sent a second time (a retry).
CreateItem_Retry(item_data, collection_keys, msgs, n) ==
    LET req == Request("zotero", "POST", "items", <<item_data>>)
    IN Send(req, "await_post", msgs, Append(n, req))

\* create_item: the collections field is set only for a non-empty key list,
\* the payload is the list holding the item, and the POST is sent.
CreateItemData(item_data, collection_keys) ==
    IF collection_keys # <<>>
    THEN Update(item_data, [collections |-> collection_keys])
    ELSE item_data

CreateItem(item_data, collection_keys, msgs, n) ==
    Send(Request("zotero", "POST", "items",
                 <<CreateItemData(item_data, collection_keys)>>),
         "await_post", msgs, n)

\* create_journal_article's item: the fixed fields, then **kwargs.
JournalArticleData(title, creators, kw) ==
    Update([itemType |-> "journalArticle", title |-> title, creators |-> creators],
           kw)

\* create_journal_article from the name at position c.idx on: look the name
\* up (a collections GET), or, with no name left, create the item.
ResolveOrCreate(c, msgs, n) ==
    /\ call' = c
    /\ IF c.idx <= Len(c.names)
       THEN Send(Request("zotero", "GET", "collections", <<>>),
                 "await_collections", msgs, n)
       ELSE CreateItem(JournalArticleData(c.title, c.creators, c.kwargs),
                       c.keys, msgs, n)

\* The mutable state of one create_journal_article call.
NewCall(title, creators, collection_keys, collection_names, kw) ==
    [title |-> title, creators |-> creators, passed |-> collection_keys,
     keys |-> collection_keys, names |-> collection_names, idx |-> 1,
     resolved |-> <<>>, kwargs |-> kw]

CreateJournalArticle(title, creators, collection_keys, collection_names, kw, msgs, n) ==
    ResolveOrCreate(NewCall(title, creators, collection_keys, collection_names, kw),
                    msgs, n)

\* _parse_authors_and_create_article: a string is parsed, a list is taken
\* as the creators.
ParseAuthorsAndCreateArticle(title, authors, isStr, collection_names, kw, msgs, n) ==
    CreateJournalArticle(title,
                         IF isStr THEN ParseAuthors(authors) ELSE authors,
                         IF "collection_keys" \in DOMAIN kw
                         THEN kw["collection_keys"] ELSE <<>>,
                         collection_names,
                         [k \in (DOMAIN kw) \ {"collection_keys"} |-> kw[k]],
                         msgs, n)

\* ZoteroAPI.add_paper
AddPaper(collection_name, title, authors, isStr, kw, msgs, n) ==
    ParseAuthorsAndCreateArticle(title, authors, isStr, <<collection_name>>, kw,
                                 msgs, n)

\* Mutant: the exception is swallowed and the run ends with status 0.
RaiseFromClient_ExitZero(n) ==
    /\ net' = n
    /\ pc' = "exited" /\ exitStatus' = 0
    /\ out' = out \o <<"error">>

\* An exception leaves the ZoteroAPI call: add_paper.py prints it with a
\* traceback and exits 1; zotero_api.py prints it and runs on to its end;
\* a direct caller gets the exception.
RaiseFromClient(n) ==
    /\ net' = n
    /\ CASE script = "add_paper" ->
              /\ pc' = "exited" /\ exitStatus' = 1
              /\ out' = out \o <<"error", "traceback">>
         [] script = "zotero_api" ->
              /\ pc' = "exited" /\ exitStatus' = 0
              /\ out' = out \o <<"error">>
         [] OTHER ->
              /\ pc' = "raised" /\ exitStatus' = exitStatus
              /\ out' = out

(***************************************************************************)
(* Inputs of the runs                                                      *)
(***************************************************************************)

\* The environment after load_dotenv(): each variable unset, empty or set.
Envs ==
    {Update(k, u) : k \in Opt("ZOTERO_API_KEY", {<<>>, <<"k">>}),
                    u \in Opt("ZOTERO_USER_ID", {<<>>, <<"7">>})}

FullEnv == [ZOTERO_API_KEY |-> <<"k">>, ZOTERO_USER_ID |-> <<"7">>]

\* Values of --authors: both conventions, a bare token, and strings with no
\* name in them.
AuthorFlagValues ==
    { <<"S", ",", " ", "J">>, <<"J", " ", "S", ";", " ", "D">>, <<";">>, <<" ">> }

\* The flags of add_paper.py; --collection has a default.
AddPaperArgs ==
    {Update(Update(Update(Update(Update(d, m), Update(t, a)), Update(y, j)),
                   Update(b, u)), c) :
        d \in Opt("doi", {<<"1", "0">>}),
        m \in Opt("pmid", {<<"3">>}),
        t \in Opt("title", {<<"M">>}),
        a \in Opt("authors", AuthorFlagValues),
        y \in Opt("date", {<<"2", "0">>}),
        j \in Opt("journal", {<<"N">>}),
        b \in Opt("abstract", {<<"p">>}),
        u \in Opt("url", {<<"h">>}),
        c \in {[collection |-> <<"B">>], [collection |-> <<"O">>]}}

\* The flags of zotero_api.py.
ZoteroApiArgs ==
    {Update(Update(Update(l, i), Update(p, t)), Update(Update(a, c), y)) :
        l \in Opt("list_collections", {<<"1">>}),
        i \in Opt("list_collection_items", {<<"K", "1">>}),
        p \in Opt("add_paper", {<<"1">>}),
        t \in Opt("title", {<<"M">>}),
        a \in Opt("authors", {<<"S", ",", " ", "J">>}),
        c \in Opt("collection_name", {<<"B">>}),
        y \in Opt("date", {<<"2", "0">>})}

\* A flag's value, None when the flag was not given.
Flag(a, k) == Get(a, k, None)

\* Bodies of CrossRef responses: a full record, a record with neither title
\* nor authors, one whose only author has no given name, and a body
\* without 'message'.
CrossrefBodies ==
    { [message |-> [title |-> <<<<"T">>>>,
                    author |-> <<[given |-> <<"J">>, family |-> <<"S">>],
                                 [given |-> <<"A">>, family |-> <<"D">>]>>,
                    published |-> [x \in {"date-parts"} |-> <<<<2021, 5>>>>]]],
      [message |-> EmptyDict],
      [message |-> [title |-> <<<<"T">>>>, author |-> <<[family |-> <<"S">>]>>]],
      EmptyDict }

\* Bodies of PubMed esummary responses for the PMID asked for: a full
\* record, a record with neither title nor authors, and a body without it.
PubmedBodies(pmid) ==
    { [result |-> [x \in {pmid} |->
                     [title |-> <<"T">>,
                      authors |-> <<[name |-> <<"S", " ", "J">>]>>,
                      pubdate |-> <<"2", "1", " ", "M">>, source |-> <<"N">>]]],
      [result |-> [x \in {pmid} |-> EmptyDict]],
      [result |-> EmptyDict] }

\* Extra keyword arguments a direct caller may pass.
LibraryKwargs ==
    {Update(d, Update(t, k)) :
        d \in Opt("date", {<<"2", "0">>}),
        t \in Opt("itemType", {"book"}),
        k \in Opt("collection_keys", {<<"K9">>})}

(***************************************************************************)
(* add_paper.py                                                            *)
(***************************************************************************)

\* Lines 124-153 of main: the manual flags are merged over the fetched
\* record kw, title and authors are required, the optional flags are
\* merged, and client.add_paper is called.
MergedTitleAuthors(kw, a) ==
    Update(Update(kw, IF Truthy(Flag(a, "title"))
                      THEN [title |-> a["title"]] ELSE EmptyDict),
           IF Truthy(Flag(a, "authors"))
           THEN [authors |-> a["authors"]] ELSE EmptyDict)

\* Mutant: only the title is required.
TitleAndAuthorsPresent_TitleOnly(kw) == "title" \in DOMAIN kw

TitleAndAuthorsPresent(kw) == "title" \in DOMAIN kw /\ "authors" \in DOMAIN kw

MergedOptional(kw, a) ==
    LET over(k, f) == IF Truthy(Flag(a, f))
                      THEN [x \in {k} |-> a[f]] ELSE EmptyDict
    IN Update(Update(Update(Update(kw, over("date", "date")),
                            over("publicationTitle", "journal")),
                     over("abstractNote", "abstract")),
              over("url", "url"))

MergeAndSubmit(kw, a, msgs, n) ==
    LET kw1 == MergedTitleAuthors(kw, a)
        kw2 == MergedOptional(kw1, a)
    IN IF ~TitleAndAuthorsPresent(kw1)
       THEN /\ Exit(1, msgs \o <<"title_and_authors_required">>, n)
            /\ kwargs' = kw1
            /\ call' = call
       ELSE /\ kwargs' = kw2
            /\ IF {"title", "authors"} \subseteq DOMAIN kw2
               THEN AddPaper(a["collection"], kw2["title"], kw2["authors"], TRUE,
                             [k \in (DOMAIN kw2) \ {"title", "authors"} |-> kw2[k]],
                             msgs \o <<"adding">>, n)
               ELSE \* add_paper(**kwargs) without a required argument: TypeError,
                    \* caught by main's except Exception.
                    /\ Exit(1, msgs \o <<"adding", "error", "traceback">>, n)
                    /\ call' = call

\* Mutant: only the API key is tested.
CredentialsSet_KeyOnly == Truthy(Get(env, "ZOTERO_API_KEY", None))

\* Both entry points' startup check (add_paper.py 12-20, zotero_api.py
\* 177-185).  zotero_api.py goes on to its connection test.
CredentialsSet ==
    /\ Truthy(Get(env, "ZOTERO_API_KEY", None))
    /\ Truthy(Get(env, "ZOTERO_USER_ID", None))

EnvCheck ==
    /\ pc = "start" /\ script \in {"add_paper", "zotero_api"}
    /\ IF ~CredentialsSet
       THEN Exit(1, <<"remediation">>, net)
       ELSE IF script = "add_paper"
       THEN /\ pc' = "parse_args"
            /\ UNCHANGED <<exitStatus, out, net>>
       ELSE Send(Request("zotero", "GET", "collections", <<>>),
                 "await_test", <<"testing">>, net)
    /\ UNCHANGED <<script, env, args, kwargs, call, runs, remote, reported, pureVars, fileVars>>

\* main up to its first request: the lookup for --doi, else for --pmid, else
\* straight to the merge.
AddPaperMain ==
    /\ pc = "parse_args" /\ script = "add_paper"
    /\ \E a \in (IF runs = 1 THEN AddPaperArgs ELSE {args}) :
        /\ args' = a
        /\ IF Truthy(Flag(a, "doi"))
           THEN /\ Send(Request("crossref", "GET", "works", <<>>),
                        "await_crossref", <<"fetching_crossref">>, net)
                /\ UNCHANGED <<kwargs, call>>
           ELSE IF Truthy(Flag(a, "pmid"))
           THEN /\ Send(Request("pubmed", "GET", "esummary", <<>>),
                        "await_pubmed", <<"fetching_pubmed">>, net)
                /\ UNCHANGED <<kwargs, call>>
           ELSE MergeAndSubmit(EmptyDict, a, <<>>, net)
    /\ UNCHANGED <<script, env, runs, remote, reported, pureVars, fileVars>>

\* The CrossRef response: a failed request is reported and ends the run with
\* status 1; an exception of the extraction is not caught (traceback, status
\* 1); otherwise the record goes into kwargs and main goes on.
RecvCrossref ==
    /\ pc = "await_crossref"
    /\ \/ /\ Exit(1, <<"error_crossref">>, Answered("error", <<>>))
          /\ UNCHANGED <<kwargs, call>>
       \/ \E body \in CrossrefBodies :
            LET r == GetCrossrefMetadata(args["doi"], body)
                n == Answered("ok", body)
            IN IF r.exc # "none"
               THEN /\ Exit(1, <<"traceback">>, n)
                    /\ UNCHANGED <<kwargs, call>>
               ELSE MergeAndSubmit(Update(kwargs, r.value), args,
                                   <<"fetched_crossref">>, n)
    /\ UNCHANGED <<script, env, args, runs, remote, reported, pureVars, fileVars>>

RecvPubmed ==
    /\ pc = "await_pubmed"
    /\ \/ /\ Exit(1, <<"error_pubmed">>, Answered("error", <<>>))
          /\ UNCHANGED <<kwargs, call>>
       \/ \E body \in PubmedBodies(args["pmid"]) :
            LET r == GetPubmedMetadata(args["pmid"], body)
                n == Answered("ok", body)
            IN IF r.exc # "none"
               THEN /\ Exit(1, <<"traceback">>, n)
                    /\ UNCHANGED <<kwargs, call>>
               ELSE MergeAndSubmit(Update(kwargs, r.value), args,
                                   <<"fetched_pubmed">>, n)
    /\ UNCHANGED <<script, env, args, runs, remote, reported, pureVars, fileVars>>

(***************************************************************************)
(* The ZoteroAPI call in progress                                          *)
(***************************************************************************)

\* The collections GET of get_collection_by_name returns: a failed request
\* raises out of the call; otherwise the name is resolved, a found key is
\* appended, and the call goes on to the next name or to create_item.
RecvCollections ==
    /\ pc = "await_collections"
    /\ \/ /\ RaiseFromClient(Answered("error", <<>>))
          /\ call' = call
       \/ \E colls \in CollectionLists :
            LET name == call.names[call.idx]
                key == CollectionKeyByName(colls, name)
            IN ResolveOrCreate(
                   [call EXCEPT !.idx = @ + 1,
                                !.resolved = Append(@, [name |-> name,
                                                        listed |-> colls,
                                                        key |-> key]),
                                !.keys = IF key # NoCollection
                                         THEN Append(@, key) ELSE @],
                   <<>>, Answered("ok", colls))
    /\ UNCHANGED <<script, env, args, kwargs, runs, remote, reported, pureVars, fileVars>>

\* The item-creation POST returns.  A failed request raises out of the call.
\* Otherwise the service answers with the item under 'successful' (it has
\* created a record) or under 'failed' (it has not), and the caller reports.
RecvPost ==
    /\ pc = "await_post"
    /\ \/ /\ RaiseFromClient(Answered("error", <<>>))
          /\ UNCHANGED <<remote, reported>>
       \/ \E created \in BOOLEAN :
            LET n == Answered("ok", IF created THEN <<"successful">> ELSE <<"failed">>)
            IN /\ remote' = IF created THEN remote + 1 ELSE remote
               /\ reported' = IF created THEN reported + 1 ELSE reported
               /\ IF script = "library"
                  THEN /\ pc' = "returned"
                       /\ net' = n
                       /\ UNCHANGED <<exitStatus, out>>
                  ELSE IF created
                  THEN Exit(0, <<"added">>, n)
                  ELSE Exit(IF script = "add_paper" THEN 1 ELSE 0,
                            <<"failed_to_add">>, n)
    /\ UNCHANGED <<script, env, args, kwargs, call, runs, pureVars, fileVars>>

(***************************************************************************)
(* zotero_api.py run as a script                                           *)
(***************************************************************************)

\* The connection test returns (its failure is printed and the script goes
\* on), the flags are parsed and the action is dispatched.
RecvTest ==
    /\ pc = "await_test"
    /\ \E ok \in BOOLEAN, a \in (IF runs = 1 THEN ZoteroApiArgs ELSE {args}) :
        LET n == Answered(IF ok THEN "ok" ELSE "error", <<>>)
            msgs == IF ok THEN <<"connected">> ELSE <<"error", "traceback">>
        IN /\ args' = a
           /\ IF Truthy(Flag(a, "list_collections"))
              THEN /\ Send(Request("zotero", "GET", "collections", <<>>),
                           "await_list", msgs, n)
                   /\ call' = call
              ELSE IF Truthy(Flag(a, "list_collection_items"))
              THEN /\ Send(Request("zotero", "GET", "collection_items", <<>>),
                           "await_list", msgs, n)
                   /\ call' = call
              ELSE IF Truthy(Flag(a, "add_paper"))
              THEN IF ~(/\ Truthy(Flag(a, "title"))
                        /\ Truthy(Flag(a, "authors"))
                        /\ Truthy(Flag(a, "collection_name")))
                   THEN /\ Exit(1, msgs \o <<"flags_required">>, n)
                        /\ call' = call
                   ELSE AddPaper(a["collection_name"], a["title"], a["authors"], TRUE,
                                 [date |-> Flag(a, "date"), DOI |-> Flag(a, "doi"),
                                  publicationTitle |-> Flag(a, "publication_title")],
                                 msgs, n)
              ELSE /\ Exit(0, msgs \o <<"no_action">>, n)
                   /\ call' = call
    /\ UNCHANGED <<script, env, kwargs, runs, remote, reported, pureVars, fileVars>>

\* --list-collections / --list-collection-items: the result or the error is
\* printed and the script ends.
RecvList ==
    /\ pc = "await_list"
    /\ \E ok \in BOOLEAN :
        Exit(0, IF ok THEN <<"listed">> ELSE <<"error">>,
             Answered(IF ok THEN "ok" ELSE "error", <<>>))
    /\ UNCHANGED <<script, env, args, kwargs, call, runs, remote, reported, pureVars, fileVars>>

(***************************************************************************)
(* Direct use of the client                                                *)
(***************************************************************************)

LibraryCalls ==
    {[method |-> "add_paper", title |-> <<"M">>, authors |-> au.v, isStr |-> au.s,
      names |-> <<nm>>, keys |-> <<>>, kwargs |-> kw] :
        au \in {[s |-> TRUE, v |-> <<"S", ",", " ", "J">>],
                [s |-> FALSE, v |-> <<Creator(<<"S">>, <<"J">>)>>]},
        nm \in {<<"B">>, <<"O">>},
        kw \in LibraryKwargs}
    \cup
    {[method |-> "create_journal_article", title |-> <<"M">>,
      authors |-> <<Creator(<<"S">>, <<"J">>)>>, isStr |-> FALSE,
      names |-> nms, keys |-> ks, kwargs |-> kw] :
        nms \in {<<>>, <<<<"B">>>>, <<<<"O">>, <<"B">>>>},
        ks \in {<<>>, <<"K9">>},
        kw \in {k \in LibraryKwargs : "collection_keys" \notin DOMAIN k}}

LibraryCall ==
    /\ pc = "start" /\ script = "library"
    /\ \E c \in (IF runs = 1 THEN LibraryCalls ELSE {args}) :
        /\ args' = c
        /\ IF c.method = "add_paper"
           THEN AddPaper(c.names[1], c.title, c.authors, c.isStr, c.kwargs, <<>>, net)
           ELSE CreateJournalArticle(c.title, c.authors, c.keys, c.names, c.kwargs,
                                     <<>>, net)
    /\ UNCHANGED <<script, env, kwargs, runs, remote, reported, pureVars, fileVars>>

(***************************************************************************)
(* The specification of the runs                                           *)
(***************************************************************************)

Ended == pc \in {"exited", "returned", "raised"}

\* The local files while a script that touches none of them runs.
IdleFiles ==
    /\ fs = EmptyDict
    /\ fsAtStart = EmptyDict
    /\ locals = EmptyDict

\* The same command line is invoked again: a new process, the same
\* environment and arguments, the same remote library.
Restart ==
    /\ Ended /\ runs < MaxRuns
    /\ runs' = runs + 1
    /\ pc' = "start"
    /\ kwargs' = EmptyDict
    /\ call' = EmptyDict
    /\ net' = <<>>
    /\ out' = <<>>
    /\ exitStatus' = Running
    /\ fsAtStart' = fs
    /\ locals' = EmptyDict
    /\ UNCHANGED <<script, env, args, remote, reported, pureVars, fs>>

Init ==
    /\ script \in {"add_paper", "zotero_api", "library"}
    /\ env \in Envs
    /\ script = "library" => env = FullEnv
    /\ pc = "start"
    /\ args = EmptyDict
    /\ kwargs = EmptyDict
    /\ call = EmptyDict
    /\ net = <<>>
    /\ out = <<>>
    /\ exitStatus = Running
    /\ runs = 1
    /\ remote = 0
    /\ reported = 0
    /\ pIn = EmptyDict
    /\ pOut = [done |-> FALSE]
    /\ IdleFiles

Next ==
    \/ EnvCheck
    \/ AddPaperMain
    \/ RecvCrossref
    \/ RecvPubmed
    \/ RecvCollections
    \/ RecvPost
    \/ RecvTest
    \/ RecvList
    \/ LibraryCall
    \/ Restart

Spec == Init /\ [][Next]_vars

(***************************************************************************)
(* Claims about the runs, checked under Spec                               *)
(***************************************************************************)

Printed(msg) == \E i \in 1..Len(out) : out[i] = msg

\* The item-creation POSTs of this run, as positions of the request log.
Posts == {i \in 1..Len(net) : net[i].method = "POST"}

\* The requests to the Zotero service.
ZoteroRequests == {i \in 1..Len(net) : net[i].svc = "zotero"}

\* C1: with ZOTERO_API_KEY or ZOTERO_USER_ID unset or empty, add_paper.py and
\* zotero_api.py print the remediation text and exit with status 1, and the
\* run makes no network call at any point.
C1_CredentialMissing ==
    \E v \in {"ZOTERO_API_KEY", "ZOTERO_USER_ID"} :
        v \notin DOMAIN env \/ env[v] = <<>>

C1_MissingCredentialsHaltBeforeNetwork ==
    (script \in {"add_paper", "zotero_api"} /\ C1_CredentialMissing) =>
        /\ net = <<>>
        /\ pc \in {"start", "exited"}
        /\ pc = "exited" => (exitStatus = 1 /\ out = <<"remediation">>)

C1_Witness ==
    /\ script = "zotero_api" /\ pc = "exited"
    /\ "ZOTERO_API_KEY" \in DOMAIN env /\ env["ZOTERO_API_KEY"] # <<>>
    /\ "ZOTERO_USER_ID" \in DOMAIN env /\ env["ZOTERO_USER_ID"] = <<>>
    /\ out = <<"remediation">>

\* The merge of add_paper.py main has been done in this run.
C2_Merged ==
    script = "add_paper" /\ (Printed("adding") \/ Printed("title_and_authors_required"))

C3_Named(creator) == creator.lastName # <<>> \/ creator.firstName # <<>>

\* C3: every record add_paper.py submits has a non-empty title and at least
\* one author with a non-empty name.
C3_SubmittedRecordHasTitleAndAuthors ==
    script = "add_paper" =>
        \A i \in Posts :
            LET item == net[i].payload[1]
            IN /\ item.title # <<>>
               /\ \E j \in 1..Len(item.creators) : C3_Named(item.creators[j])

\* The create_journal_article call has looked up all its names.
C4_AllResolved ==
    /\ "names" \in DOMAIN call
    /\ call.idx > Len(call.names)

\* C4: a collection name that no listed collection has resolves to None
\* without an error, and when no name of the call resolves (and the caller
\* passed no collection keys) the item-creation POST is still sent, with an
\* item that has no "collections" field.
C4_NoMatchCreatesWithoutCollection ==
    "names" \in DOMAIN call =>
        /\ \A i \in 1..Len(call.resolved) :
              LET r == call.resolved[i]
                  named == \E j \in 1..Len(r.listed) :
                              /\ "data" \in DOMAIN r.listed[j]
                              /\ r.listed[j].data.name = r.name
              IN (r.key = NoCollection) <=> ~named
        /\ (/\ C4_AllResolved
            /\ call.passed = <<>>
            /\ \A i \in 1..Len(call.resolved) : call.resolved[i].key = NoCollection)
           => /\ Cardinality(Posts) = 1
              /\ \A i \in Posts : "collections" \notin DOMAIN net[i].payload[1]

C4_Witness ==
    /\ script = "add_paper" /\ pc = "await_post"
    /\ call.names = <<<<"B">>>>
    /\ call.resolved[1].key = NoCollection
    /\ Len(call.resolved[1].listed) = 2
    /\ "collections" \notin DOMAIN net[Len(net)].payload[1]

\* C8: a request that returns a non-success status is the last request of its
\* operation: the operation raises and sends nothing more.  In add_paper.py
\* the run then exits with status 1, so a failed collections GET is followed
\* by no POST and a failed lookup by no Zotero call.  (zotero_api.py's
\* connection test is an operation of its own: the script goes on after it.)
C8_FailedRequestAborts ==
    \A i \in 1..Len(net) :
        net[i].status = "error" =>
            /\ i = Len(net) \/ (script = "zotero_api" /\ i = 1)
            /\ script = "add_paper" => (pc = "exited" /\ exitStatus = 1)
            /\ script = "library" => pc = "raised"
            /\ script = "zotero_api" => Printed("error")
            /\ net[i].path = "collections" /\ i = Len(net) /\ i > 1 => Posts = {}
            /\ net[i].svc \in {"crossref", "pubmed"} => ZoteroRequests = {}

C8_Witness ==
    /\ script = "add_paper" /\ pc = "exited" /\ exitStatus = 1
    /\ Len(net) = 2
    /\ net[1].svc = "crossref" /\ net[1].status = "ok"
    /\ net[2].path = "collections" /\ net[2].status = "error"

\* C9: a run sends at most one item-creation POST; a run of add_paper.py that
\* reports success has sent exactly one, and it was answered; and the service
\* holds one record per run that got a successful POST, so invoking the same
\* command k times successfully creates k records.
C9_OnePostPerRunNoDeduplication ==
    /\ Cardinality(Posts) <= 1
    /\ pc = "await_post" =>
          (Cardinality(Posts) = 1 /\ net[Len(net)].method = "POST")
    /\ (script = "add_paper" /\ exitStatus = 0) =>
          (Cardinality(Posts) = 1 /\ \A i \in Posts : net[i].status = "ok")
    /\ remote = reported
    /\ remote <= runs

C9_Witness ==
    /\ script = "add_paper" /\ pc = "exited" /\ exitStatus = 0
    /\ runs = 2 /\ remote = 2

\* C10: every item-creation POST carries a list of exactly one item, and that
\* item's itemType is "journalArticle", whatever keyword fields were passed.
C10_PayloadIsOneJournalArticle ==
    \A i \in Posts :
        /\ Len(net[i].payload) = 1
        /\ net[i].payload[1].itemType = "journalArticle"

(***************************************************************************)
(* The pure functions applied to bounded inputs                            *)
(***************************************************************************)

\* Bounds of the inputs.
MaxAuthors == 2
MaxSegs == 2
MaxSegLen == 2

\* Single-token names: no space, comma or semicolon.
Tokens == {<<"a">>, <<"b">>, <<"a", "b">>}

Names == [first : Tokens, last : Tokens]

\* "Last, First; Last, First"
FormatLastFirst(names) ==
    Join([i \in 1..Len(names) |-> names[i].last \o <<",", " ">> \o names[i].first],
         <<";", " ">>)

\* "First Last; First Last"
FormatFirstLast(names) ==
    Join([i \in 1..Len(names) |-> names[i].first \o <<" ">> \o names[i].last],
         <<";", " ">>)

NamesInputs == {[fn |-> "names", names |-> ns] : ns \in SeqsOf(Names, 1, MaxAuthors)}

\* Segments of an author string: any text without a semicolon.
SegmentChars == {"a", " ", ","}

SegmentsInputs ==
    {[fn |-> "segments", segs |-> ss] :
        ss \in SeqsOf(SeqsOf(SegmentChars, 0, MaxSegLen), 1, MaxSegs)}

\* CrossRef works responses.
CrossrefCreators ==
    {Update(g, f) : g \in Opt("given", {<<"J">>}),
                    f \in Opt("family", {<<"S">>, <<"D">>})}

CrossrefPublished ==
    {Update(EmptyDict, d) :
        d \in Opt("date-parts", {<<>>, <<<<>>>>, <<<<NullPart>>>>, <<<<0>>>>,
                                 <<<<2021>>>>, <<<<1999, 5>>>>})}

CrossrefItems ==
    {Update(Update(Update(Update(t, a), p), c), b) :
        t \in Opt("title", {<<>>, <<<<"T">>>>, <<<<"T">>, <<"U">>>>}),
        a \in Opt("author", SeqsOf(CrossrefCreators, 0, MaxAuthors)),
        p \in Opt("published", CrossrefPublished),
        c \in Opt("container-title", {<<>>, <<<<"N">>>>}),
        b \in Opt("abstract", {<<"p">>, <<"<", "p", ">">>})}

CrossrefInputs ==
    {[fn |-> "crossref", doi |-> <<"1", "0">>, data |-> d] :
        d \in {EmptyDict} \cup {[message |-> item] : item \in CrossrefItems}}

NotApplied == [done |-> FALSE]

Applied(op, v) == [done |-> TRUE, op |-> op, value |-> v]

\* The run model's variables while only a pure function is exercised.
IdleRun ==
    /\ script = "none"
    /\ pc = "idle"
    /\ env = EmptyDict
    /\ args = EmptyDict
    /\ kwargs = EmptyDict
    /\ call = EmptyDict
    /\ net = <<>>
    /\ out = <<>>
    /\ exitStatus = Running
    /\ runs = 0
    /\ remote = 0
    /\ reported = 0

PureInit ==
    /\ IdleRun
    /\ IdleFiles
    /\ pOut = NotApplied
    /\ \/ pIn \in NamesInputs
       \/ pIn \in SegmentsInputs
       \/ pIn \in CrossrefInputs

ApplyParseLastFirst ==
    /\ pIn.fn = "names" /\ ~pOut.done
    /\ pOut' = Applied("last_first", ParseAuthors(FormatLastFirst(pIn.names)))
    /\ UNCHANGED <<pIn, runVars, fileVars>>

ApplyParseFirstLast ==
    /\ pIn.fn = "names" /\ ~pOut.done
    /\ pOut' = Applied("first_last", ParseAuthors(FormatFirstLast(pIn.names)))
    /\ UNCHANGED <<pIn, runVars, fileVars>>

ApplyParseSegments ==
    /\ pIn.fn = "segments" /\ ~pOut.done
    /\ pOut' = Applied("segments", ParseAuthors(Join(pIn.segs, <<";">>)))
    /\ UNCHANGED <<pIn, runVars, fileVars>>

ApplyCrossref ==
    /\ pIn.fn = "crossref" /\ ~pOut.done
    /\ pOut' = Applied("crossref", GetCrossrefMetadata(pIn.doi, pIn.data))
    /\ UNCHANGED <<pIn, runVars, fileVars>>

PureNext ==
    \/ ApplyParseLastFirst
    \/ ApplyParseFirstLast
    \/ ApplyParseSegments
    \/ ApplyCrossref

SpecPure == PureInit /\ [][PureNext]_vars

(***************************************************************************)
(* Claims about the pure functions, checked under SpecPure                 *)
(***************************************************************************)

\* C5: a list of authors with single-token names parses to the same creators,
\* one per author and in order, lastName = Last and firstName = First, whether
\* it is written "Last, First; ..." or "First Last; ...".
C5_BothConventionsAgree ==
    (pOut.done /\ pOut.op \in {"last_first", "first_last"}) =>
        pOut.value = [i \in 1..Len(pIn.names) |->
                        Creator(pIn.names[i].last, pIn.names[i].first)]

C5_Witness ==
    /\ pOut.done /\ pOut.op = "first_last"
    /\ Len(pIn.names) = 2
    /\ pIn.names[1].last # pIn.names[2].last
    /\ pIn.names[1].first # pIn.names[1].last

\* Runs of n spaces.
Spaces(n) == [i \in 1..n |-> " "]

\* C6: a segment that is a single bare token (no comma, no internal
\* whitespace, possibly with spaces around it) yields the creator with that
\* token as lastName and an empty firstName, wherever the segment stands.
C6_BareTokenIsLastName ==
    (pOut.done /\ pOut.op = "segments") =>
        /\ Len(pOut.value) = Len(pIn.segs)
        /\ \A i \in 1..Len(pIn.segs) :
            \A l, r \in 0..Len(pIn.segs[i]) :
                LET seg == pIn.segs[i]
                    t == Slice(seg, l + 1, Len(seg) - r)
                IN (/\ l + r < Len(seg)
                    /\ seg = Spaces(l) \o t \o Spaces(r)
                    /\ ~Contains(t, " ") /\ ~Contains(t, ","))
                   => pOut.value[i] = Creator(t, <<>>)

C6_Witness ==
    /\ pOut.done /\ pOut.op = "segments"
    /\ Len(pIn.segs) = 2
    /\ pIn.segs[2] = <<" ", "a">>
    /\ pOut.value[2] = Creator(<<"a">>, <<>>)

\* The response item of a CrossRef input, and its author list.
C7_Item == pIn.data["message"]

C7_Authors == Get(C7_Item, "author", <<>>)

\* The authors of the response that carry both name parts, in response order.
C7_FullyNamed ==
    SelectSeq(C7_Authors, LAMBDA c : {"given", "family"} \subseteq DOMAIN c)

\* The first number of the first date-parts entry, 0 when there is none.
C7_Year ==
    LET parts == CrossrefDateParts(C7_Item)
    IN IF parts[1] = <<>> \/ parts[1][1] = NullPart THEN 0 ELSE parts[1][1]

C7_Applied == pOut.done /\ pOut.op = "crossref" /\ "message" \in DOMAIN pIn.data

\* C7 (as amended): when get_crossref_metadata returns, the title is the
\* response's first title ("" when the response has no title field), the
\* authors string lists, in response order, as "Last, First" joined by "; ",
\* exactly the authors that have both a given and a family name (the others
\* are left out), and the date is the published year as a string (None when
\* the response has no published year).
C7_RecordReproducesNamedAuthors ==
    (C7_Applied /\ pOut.value.exc = "none") =>
        LET r == pOut.value.value
        IN /\ r.title = (IF "title" \in DOMAIN C7_Item THEN C7_Item["title"][1] ELSE <<>>)
           /\ r.authors = Join([i \in 1..Len(C7_FullyNamed) |->
                                  C7_FullyNamed[i]["family"] \o <<",", " ">>
                                      \o C7_FullyNamed[i]["given"]],
                               <<";", " ">>)
           /\ r.date = (IF C7_Year = 0 THEN None ELSE Str(C7_Year))

C7_Witness ==
    /\ C7_Applied /\ pOut.value.exc = "none"
    /\ Len(C7_Authors) = 2
    /\ Len(C7_FullyNamed) = 2
    /\ C7_Authors[1]["family"] # C7_Authors[2]["family"]
    /\ pOut.value.value.authors = <<"S", ",", " ", "J", ";", " ", "D", ",", " ", "J">>
    /\ pOut.value.value.date = <<"2", "0", "2", "1">>
    /\ pOut.value.value.title = <<"T">>

\* C7 (as claimed): for every response the call returns a record, and no
\* author of the response is omitted or reordered: the authors string has one
\* entry per author of the response, the i-th carrying the i-th family name.
C7_EveryAuthorListed ==
    C7_Applied =>
        /\ pOut.value.exc = "none"
        /\ LET parsed == ParseAuthors(pOut.value.value.authors)
           IN Len(C7_Authors) > 0 =>
                /\ Len(parsed) = Len(C7_Authors)
                /\ \A i \in 1..Len(C7_Authors) :
                      "family" \in DOMAIN C7_Authors[i] =>
                          parsed[i].lastName = C7_Authors[i]["family"]

(***************************************************************************)
(* call_zotero_mcp.py: the semantic search through the zotero-mcp command  *)
(***************************************************************************)

\* Text as json.loads sees it: not JSON, or the value it decodes to.
NotJson == [json |-> FALSE]

JsonText(v) == [json |-> TRUE, value |-> v]

\* JSON values: a list, an object, a string (holding text).  Each kind has
\* its own field, so that values of different kinds compare unequal.
JList(v) == [t |-> "list", items |-> v]

JDict(d) == [t |-> "dict", fields |-> d]

JStr(text) == [t |-> "str", text |-> text]

JNum(n) == [t |-> "num", n |-> n]

\* env['ZOTERO_LOCAL'], env['ZOTERO_API_KEY'], env['ZOTERO_USER_ID'] as the
\* script assigns them to the copy of its environment.
HardcodedCredentials ==
    [ZOTERO_LOCAL |-> <<"t">>, ZOTERO_API_KEY |-> <<"G">>, ZOTERO_USER_ID |-> <<"1">>]

\* The environment handed to the zotero-mcp subprocess.
McpEnv(e) == Update(e, HardcodedCredentials)

\* sys.argv: the script name alone, or with the query and result files.
McpArgvs ==
    { <<"call_zotero_mcp.py">>,
      <<"call_zotero_mcp.py", "query.json", "result.json">> }

\* The query file: not JSON, a JSON list, or an object with or without a
\* query and a limit.
QueryFiles ==
    { NotJson, JsonText(JList(<<>>)),
      JsonText(JDict(EmptyDict)),
      JsonText(JDict([query |-> <<>>])),
      JsonText(JDict([query |-> <<"q">>])),
      JsonText(JDict([query |-> <<"q">>, limit |-> <<"2">>])) }

\* Lines of the subprocess's standard output.
McpListLine == JsonText(JDict([result |-> JList(<<"hit">>)]))

McpContentLine(text) ==
    JsonText(JDict([result |->
        JDict([content |-> JList(<<JDict([text |-> text])>>)])]))

McpStdouts ==
    { <<>>,
      <<NotJson>>,
      <<JsonText(JDict(EmptyDict))>>,
      <<McpListLine>>,
      <<McpContentLine(JsonText(JList(<<"hit">>))), NotJson>>,
      <<McpListLine, McpContentLine(NotJson)>>,
      <<McpContentLine(JsonText(JNum(7)))>>,
      <<JsonText(JDict([result |-> JDict(EmptyDict)]))>>,
      <<JsonText(JDict([result |-> JStr(JsonText(JList(<<>>)))]))>>,
      <<JsonText(JDict([result |-> JStr(NotJson)])), JsonText(JList(<<>>))>> }

NoReturn == [ret |-> FALSE]

Return(v) == [ret |-> TRUE, value |-> v]

\* The body of the loop over the output lines: the value returned for this
\* line, if any; a JSONDecodeError goes on to the next line.
LineResult(line) ==
    IF ~line.json THEN NoReturn
    ELSE LET response == line.value
         IN IF response.t # "dict" \/ "result" \notin DOMAIN response.fields
            THEN NoReturn
            ELSE LET result == response.fields["result"]
                 IN CASE result.t = "dict" ->
                           IF /\ "content" \in DOMAIN result.fields
                              /\ result.fields["content"].t = "list"
                              /\ Len(result.fields["content"].items) > 0
                           THEN LET text_content ==
                                      Get(result.fields["content"].items[1].fields, "text",
                                          JsonText(JList(<<>>)))
                                IN IF text_content.json
                                   THEN Return(text_content.value)
                                   ELSE NoReturn
                           ELSE NoReturn
                      [] result.t = "list" -> Return(result)
                      [] result.t = "str" ->
                           IF result.text.json THEN Return(result.text.value)
                           ELSE NoReturn
                      [] OTHER -> NoReturn

\* for line in reversed(lines): the first line, from the end, that returns.
RECURSIVE LastResult(_)
LastResult(lines) ==
    IF lines = <<>> THEN NoReturn
    ELSE LET r == LineResult(lines[Len(lines)])
         IN IF r.ret THEN r ELSE LastResult(SubSeq(lines, 1, Len(lines) - 1))

\* Mutant: main ends without writing the result file.
WriteResults_NoFile(results, msgs, n) ==
    /\ fs' = fs
    /\ Exit(0, msgs \o <<"found">>, n)

\* main after the search returned results: the result file is written and
\* main returns, so the process ends with status 0.  For results that have
\* no length, len(results) raises after the file was written: main's except
\* branch writes the empty list over it and exits with status 1.
WriteResults(results, msgs, n) ==
    IF results.t \in {"list", "dict"}
    THEN /\ fs' = Update(fs, [f \in {args.argv[3]} |-> JsonText(results)])
         /\ Exit(0, msgs \o <<"found">>, n)
    ELSE /\ fs' = Update(fs, [f \in {args.argv[3]} |-> JsonText(JList(<<>>))])
         /\ Exit(1, msgs \o <<"error_executing_search">>, n)

\* main up to the subprocess call: the usage check, the query file, then
\* call_zotero_semantic_search up to process.communicate.  Popen raises
\* FileNotFoundError when the command is not installed.
McpMain ==
    /\ pc = "start" /\ script = "call_zotero_mcp"
    /\ \E a \in (IF runs = 1 THEN {[argv |-> v] : v \in McpArgvs} ELSE {args}),
          installed \in BOOLEAN :
        /\ args' = a
        /\ IF Len(a.argv) # 3
           THEN Exit(1, <<"usage">>, net) /\ fs' = fs
           ELSE LET query_file == a.argv[2]
                    readable == /\ query_file \in DOMAIN fs
                                /\ fs[query_file].json
                                /\ fs[query_file].value.t = "dict"
                    query == Get(fs[query_file].value.fields, "query", <<>>)
                    limit == Get(fs[query_file].value.fields, "limit", <<"5">>)
                IN IF ~readable \/ ~Truthy(query)
                   THEN Exit(1, <<"error_reading_query">>, net) /\ fs' = fs
                   ELSE IF ~installed
                   THEN /\ fs' = Update(fs, [f \in {a.argv[3]} |-> JsonText(JList(<<>>))])
                        /\ Exit(0, <<"searching", "command_not_found", "found">>, net)
                   ELSE /\ Send(Request("zotero_mcp", "tools/call",
                                        "zotero_semantic_search",
                                        [env |-> McpEnv(env), query |-> query,
                                         limit |-> limit]),
                                "await_mcp", <<"searching">>, net)
                        /\ fs' = fs
    /\ UNCHANGED <<script, env, kwargs, call, runs, remote, reported, pureVars,
                   fsAtStart, locals>>

\* process.communicate(..., timeout=30) ends: with the output of the
\* subprocess, with TimeoutExpired after 30 seconds without an answer (the
\* subprocess is killed), or with another exception.  Each way the search
\* returns a list and main writes it.
McpRecv ==
    /\ pc = "await_mcp"
    /\ \/ \E stdout \in McpStdouts :
            LET r == LastResult(stdout)
            IN IF r.ret
               THEN WriteResults(r.value, <<>>, Answered("ok", stdout))
               ELSE WriteResults(JList(<<>>), <<"no_valid_response">>,
                                 Answered("ok", stdout))
       \/ WriteResults(JList(<<>>), <<"timed_out">>, Answered("timeout", <<>>))
       \/ WriteResults(JList(<<>>), <<"error_calling">>, Answered("error", <<>>))
    /\ UNCHANGED <<script, env, args, kwargs, call, runs, remote, reported,
                   pureVars, fsAtStart, locals>>

McpInit ==
    /\ script = "call_zotero_mcp"
    /\ env \in Envs
    /\ pc = "start"
    /\ args = EmptyDict
    /\ kwargs = EmptyDict
    /\ call = EmptyDict
    /\ net = <<>>
    /\ out = <<>>
    /\ exitStatus = Running
    /\ runs = 1
    /\ remote = 0
    /\ reported = 0
    /\ pIn = EmptyDict
    /\ pOut = [done |-> FALSE]
    /\ fs \in {EmptyDict} \cup {[f \in {"query.json"} |-> c] : c \in QueryFiles}
    /\ fsAtStart = fs
    /\ locals = EmptyDict

\* Every script that reaches a remote service.
InitRemote == Init \/ McpInit

NextRemote ==
    \/ Next
    \/ McpMain
    \/ McpRecv

SpecRemote == InitRemote /\ [][NextRemote]_vars

(***************************************************************************)
(* Claims about the remote-service scripts, checked under SpecRemote       *)
(***************************************************************************)

\* A remote call of this run failed: it was rejected, it raised, it timed
\* out, or the command to call was not there.
RemoteCallFailed ==
    \/ \E i \in 1..Len(net) : net[i].status \in {"error", "timeout"}
    \/ Printed("command_not_found")

\* C11: a run in which a remote call failed ends with a printed message and a
\* non-zero exit status; no script exits with status 0 after such a failure.
C11_FailureExitsNonZero ==
    (pc = "exited" /\ RemoteCallFailed) => (out # <<>> /\ exitStatus # 0)

\* The requests of this run that go to the Zotero service, directly or
\* through the zotero-mcp command.
ZoteroContacts == {i \in 1..Len(net) : net[i].svc \in {"zotero", "zotero_mcp"}}

\* C13: a script contacts the Zotero service only when ZOTERO_API_KEY and
\* ZOTERO_USER_ID are set in its environment, and the credentials it hands to
\* the zotero-mcp command are those of its environment; without them the run
\* stops with status 1 and no contact.
C13_EnvironmentCredentialsGateEveryScript ==
    script \in {"add_paper", "zotero_api", "call_zotero_mcp"} =>
        /\ ZoteroContacts # {} =>
              /\ Truthy(Get(env, "ZOTERO_API_KEY", None))
              /\ Truthy(Get(env, "ZOTERO_USER_ID", None))
        /\ \A i \in ZoteroContacts :
              net[i].svc = "zotero_mcp" =>
                 /\ net[i].payload.env["ZOTERO_API_KEY"] = Get(env, "ZOTERO_API_KEY", None)
                 /\ net[i].payload.env["ZOTERO_USER_ID"] = Get(env, "ZOTERO_USER_ID", None)

\* The positions at which a script is blocked in a remote call.
AwaitPositions ==
    {"await_crossref", "await_pubmed", "await_collections", "await_post",
     "await_test", "await_list", "await_mcp"}

\* C14 (as the code has it): a script with an unanswered request is blocked
\* at that call, not ended, and that request is its last; the only call that
\* is given up is call_zotero_mcp.py's, after its 30 second timeout, and that
\* run then prints the timeout, writes an empty result list and exits 0.
C14_OnlyMcpCallTimesOut ==
    \A i \in 1..Len(net) :
        /\ net[i].status = "pending" =>
              (i = Len(net) /\ pc \in AwaitPositions /\ exitStatus = Running)
        /\ net[i].status = "timeout" =>
              /\ script = "call_zotero_mcp" /\ net[i].svc = "zotero_mcp"
              /\ pc = "exited" /\ exitStatus = 0
              /\ Printed("timed_out")
              /\ fs[args.argv[3]] = JsonText(JList(<<>>))

C14_Witness ==
    /\ script = "call_zotero_mcp" /\ pc = "exited"
    /\ Len(net) = 1 /\ net[1].status = "timeout"

\* C14 as stated: no script has a timeout; a run ends only when every remote
\* call it issued has returned.
C14_NoScriptGivesUpACall ==
    Ended => \A i \in 1..Len(net) : net[i].status \in {"ok", "error"}

(***************************************************************************)
(* add_paper.py's flags, checked under Spec                                *)
(***************************************************************************)

\* The flag f was given and the record's field k does not hold its value.
C15_FlagLost(item, f, k) ==
    Truthy(Flag(args, f)) /\ Get(item, k, None) # args[f]

\* C15: in the record add_paper.py submits, every flag given is its field:
\* --title, --date, --journal, --abstract, --url, --doi and --pmid as title,
\* date, publicationTitle, abstractNote, url, DOI and PMID, --authors parsed
\* as the creators, and --collection is the collection looked up; for every
\* combination of flags.
C15_EveryFlagIsInTheRecord ==
    script = "add_paper" =>
        \A i \in Posts :
            LET item == net[i].payload[1]
            IN /\ ~C15_FlagLost(item, "title", "title")
               /\ ~C15_FlagLost(item, "date", "date")
               /\ ~C15_FlagLost(item, "journal", "publicationTitle")
               /\ ~C15_FlagLost(item, "abstract", "abstractNote")
               /\ ~C15_FlagLost(item, "url", "url")
               /\ ~C15_FlagLost(item, "doi", "DOI")
               /\ ~C15_FlagLost(item, "pmid", "PMID")
               /\ Truthy(Flag(args, "authors")) =>
                     item.creators = ParseAuthors(args["authors"])
               /\ call.names = <<args["collection"]>>

(***************************************************************************)
(* standardize_filenames.py and cleanup_source_files.py                    *)
(*                                                                         *)
(* fs maps the directory and every file in it to its content; a file's     *)
(* content is named after the file that first held it, so that a rename    *)
(* carries it along and an overwrite replaces it.                          *)
(***************************************************************************)

\* How many runs of the two scripts follow one another.
MaxFileRuns == 2

\* RENAME_MAP, in the order of the dict: <<old name, new name>>.
RENAME_MAP ==
    << <<"Source02_SY5YRHHX_ComBat-seq.txt",
         "Zhang et al. - 2020 - ComBat-seq batch effect adjustment for RNA-seq count data.txt">>,
       <<"Source03_4CFFLXQX_BatchEffectConfounding.txt",
         "Soneson et al. - 2014 - Batch Effect Confounding Leads to Strong Bias in Performance Estimates Obtained by Cross-Validation.txt">>,
       <<"Source04_Z35ZGFFP_MLCancerClassification.txt",
         "Alharbi and Vakanski - 2023 - Machine Learning Methods for Cancer Classification Using Gene Expression Data A Review.txt">>,
       <<"Source05_YN23WTL4_SingleCellBatchCorrection.txt",
         "Tran et al. - 2020 - A benchmark of batch-effect correction methods for single-cell RNA sequencing data.txt">>,
       <<"Source06_3SB9HQZP_AlternativeEmpiricalBayes.txt",
         "Zhang et al. - 2018 - Alternative empirical Bayes models for adjusting for batch effects in genomic studies.txt">>,
       <<"Source12_JD37VSP5_MergingVsMetaAnalysis.txt",
         "Taminau et al. - 2014 - Comparison of Merging and Meta-Analysis as Alternative Approaches for Integrative Gene Expression Analysis.txt">> >>

FILES_TO_REMOVE ==
    << "Source02_SY5YRHHX_ComBat-seq.txt",
       "Source03_4CFFLXQX_BatchEffectConfounding.txt",
       "Source04_Z35ZGFFP_MLCancerClassification.txt",
       "Source05_YN23WTL4_SingleCellBatchCorrection.txt",
       "Source06_3SB9HQZP_AlternativeEmpiricalBayes.txt" >>

literature_dir == "literature/ExtractedText"

\* The directory before the first run: missing, or there with some of the old
\* and new files in it.  The files of the first, second and last entry are
\* there or not independently; the third to fifth entries are all in the
\* same one of the four cases.
FileSystems ==
    {EmptyDict} \cup
    {[name \in free \cup alike \cup {literature_dir} |-> name] :
        free \in SUBSET {RENAME_MAP[j][k] : j \in {1, 2, Len(RENAME_MAP)}, k \in 1..2},
        alike \in {{RENAME_MAP[j][k] : j \in 3..(Len(RENAME_MAP) - 1), k \in ks} :
                      ks \in SUBSET {1, 2}}}

\* Both mains up to their loop: a missing directory is reported and main
\* returns, so the process ends with status 0.
FilesMain ==
    /\ pc = "start" /\ script \in {"standardize_filenames", "cleanup_source_files"}
    /\ IF literature_dir \notin DOMAIN fs
       THEN /\ pc' = "exited" /\ exitStatus' = 0
            /\ out' = out \o <<"directory_not_found">>
            /\ locals' = locals
       ELSE /\ pc' = "loop" /\ exitStatus' = exitStatus
            /\ out' = out \o <<"in_directory">>
            /\ locals' = Update(locals,
                  IF script = "standardize_filenames"
                  THEN [i |-> 1, renamed_count |-> 0, skipped_count |-> 0]
                  ELSE [i |-> 1, removed_count |-> 0, not_found_count |-> 0])
    /\ UNCHANGED <<script, env, args, kwargs, call, net, runs, remote, reported,
                   pureVars, fs, fsAtStart>>

\* Mutant: the target is never found to exist.
TargetExists_Never(new_name) == FALSE

\* new_path.exists()
TargetExists(new_name) == new_name \in DOMAIN fs

\* One iteration of standardize_filenames' loop: skip, rename, or report the
\* exception of the rename.
StandardizeRename ==
    /\ pc = "loop" /\ script = "standardize_filenames"
    /\ locals.i <= Len(RENAME_MAP)
    /\ LET old_name == RENAME_MAP[locals.i][1]
           new_name == RENAME_MAP[locals.i][2]
       IN IF old_name \notin DOMAIN fs
          THEN /\ out' = out \o <<"skipping_not_found">>
               /\ locals' = [locals EXCEPT !.i = @ + 1, !.skipped_count = @ + 1]
               /\ fs' = fs
          ELSE IF TargetExists(new_name)
          THEN /\ out' = out \o <<"skipping_target_exists">>
               /\ locals' = [locals EXCEPT !.i = @ + 1, !.skipped_count = @ + 1]
               /\ fs' = fs
          ELSE \/ /\ fs' = [name \in (DOMAIN fs \ {old_name}) \cup {new_name} |->
                               IF name = new_name THEN fs[old_name] ELSE fs[name]]
                  /\ out' = out \o <<"renamed">>
                  /\ locals' = [locals EXCEPT !.i = @ + 1, !.renamed_count = @ + 1]
               \/ /\ fs' = fs
                  /\ out' = out \o <<"error_renaming">>
                  /\ locals' = [locals EXCEPT !.i = @ + 1]
    /\ UNCHANGED <<script, pc, env, args, kwargs, call, net, exitStatus, runs,
                   remote, reported, pureVars, fsAtStart>>

\* One iteration of cleanup_source_files' loop: skip, unlink, or report the
\* exception of the unlink.
CleanupRemove ==
    /\ pc = "loop" /\ script = "cleanup_source_files"
    /\ locals.i <= Len(FILES_TO_REMOVE)
    /\ LET filename == FILES_TO_REMOVE[locals.i]
       IN IF filename \notin DOMAIN fs
          THEN /\ out' = out \o <<"skipping_already_removed">>
               /\ locals' = [locals EXCEPT !.i = @ + 1, !.not_found_count = @ + 1]
               /\ fs' = fs
          ELSE \/ /\ fs' = [name \in DOMAIN fs \ {filename} |-> fs[name]]
                  /\ out' = out \o <<"removed">>
                  /\ locals' = [locals EXCEPT !.i = @ + 1, !.removed_count = @ + 1]
               \/ /\ fs' = fs
                  /\ out' = out \o <<"error_removing">>
                  /\ locals' = [locals EXCEPT !.i = @ + 1]
    /\ UNCHANGED <<script, pc, env, args, kwargs, call, net, exitStatus, runs,
                   remote, reported, pureVars, fsAtStart>>

\* After the loop both mains print their summary and return.
FilesSummary ==
    /\ pc = "loop"
    /\ locals.i > (IF script = "standardize_filenames"
                   THEN Len(RENAME_MAP) ELSE Len(FILES_TO_REMOVE))
    /\ LET changed == IF script = "standardize_filenames"
                      THEN locals.renamed_count ELSE locals.removed_count
       IN out' = out \o <<"summary">> \o
                 (IF changed > 0 THEN <<"all_standard">> ELSE <<>>)
    /\ pc' = "exited" /\ exitStatus' = 0
    /\ UNCHANGED <<script, env, args, kwargs, call, net, runs, remote, reported,
                   pureVars, fileVars>>

\* How often a message was printed.
Count(msgs, msg) == Cardinality({k \in 1..Len(msgs) : msgs[k] = msg})

\* Either script is run next, on the directory as the last run left it;
\* locals keeps what the last run was and did.
FilesRestart ==
    /\ pc = "exited" /\ runs < MaxFileRuns
    /\ script' \in {"standardize_filenames", "cleanup_source_files"}
    /\ runs' = runs + 1
    /\ pc' = "start"
    /\ out' = <<>>
    /\ exitStatus' = Running
    /\ fsAtStart' = fs
    /\ locals' = [previous |->
                    [script |-> script,
                     errors |-> Count(out, "error_renaming") + Count(out, "error_removing"),
                     changed |-> fs # fsAtStart]]
    /\ UNCHANGED <<env, args, kwargs, call, net, remote, reported, pureVars, fs>>

FilesInit ==
    /\ script \in {"standardize_filenames", "cleanup_source_files"}
    /\ pc = "start"
    /\ env = EmptyDict
    /\ args = EmptyDict
    /\ kwargs = EmptyDict
    /\ call = EmptyDict
    /\ net = <<>>
    /\ out = <<>>
    /\ exitStatus = Running
    /\ runs = 1
    /\ remote = 0
    /\ reported = 0
    /\ pIn = EmptyDict
    /\ pOut = [done |-> FALSE]
    /\ fs \in FileSystems
    /\ fsAtStart = fs
    /\ locals = EmptyDict

FilesNext ==
    \/ FilesMain
    \/ StandardizeRename
    \/ CleanupRemove
    \/ FilesSummary
    \/ FilesRestart

SpecFiles == FilesInit /\ [][FilesNext]_vars

(***************************************************************************)
(* Claims about the two file scripts, checked under SpecFiles              *)
(***************************************************************************)

\* C12: a run of standardize_filenames that hits a failed rename leaves the
\* files as they were before the run.
C12_FailedRunLeavesFilesAsBefore ==
    (script = "standardize_filenames" /\ pc = "exited" /\ Printed("error_renaming"))
        => fs = fsAtStart

\* RENAME_MAP[old_name]
C16_Target(old_name) ==
    RENAME_MAP[CHOOSE j \in 1..Len(RENAME_MAP) : RENAME_MAP[j][1] = old_name][2]

\* C16: whenever cleanup_source_files removes an old Source-ID file, the
\* file's RENAME_MAP target exists in the directory at that moment.
C16_RemovedOnlyWhenSuperseded ==
    [][\A j \in 1..Len(FILES_TO_REMOVE) :
          LET filename == FILES_TO_REMOVE[j]
          IN (/\ script = "cleanup_source_files"
              /\ filename \in DOMAIN fs
              /\ filename \notin DOMAIN fs')
                 => C16_Target(filename) \in DOMAIN fs]_vars

\* C20: in a run of standardize_filenames that found its directory, no file
\* that was there before the run has its content replaced; each new file is
\* the target of an entry whose old file existed, and holds its content; each
\* file gone was renamed to its target, which did not exist; after k entries
\* renamed + skipped + reported errors = k, and the run ends after all the
\* entries of RENAME_MAP; and a run that directly follows a run of
\* standardize_filenames without errors renames nothing and leaves the
\* directory as it was.
C20_RenamesOnlyOntoFreeNames ==
    (/\ script = "standardize_filenames"
     /\ pc \in {"loop", "exited"}
     /\ literature_dir \in DOMAIN fs) =>
        /\ \A name \in DOMAIN fsAtStart \cap DOMAIN fs : fs[name] = fsAtStart[name]
        /\ \A name \in DOMAIN fs \ DOMAIN fsAtStart :
              \E j \in 1..Len(RENAME_MAP) :
                  /\ RENAME_MAP[j][2] = name
                  /\ RENAME_MAP[j][1] \in DOMAIN fsAtStart \ DOMAIN fs
                  /\ fs[name] = fsAtStart[RENAME_MAP[j][1]]
        /\ \A name \in DOMAIN fsAtStart \ DOMAIN fs :
              \E j \in 1..Len(RENAME_MAP) :
                  /\ RENAME_MAP[j][1] = name
                  /\ RENAME_MAP[j][2] \in DOMAIN fs \ DOMAIN fsAtStart
        /\ locals.renamed_count + locals.skipped_count
              + Count(out, "error_renaming") = locals.i - 1
        /\ locals.renamed_count = Cardinality(DOMAIN fs \ DOMAIN fsAtStart)
        /\ pc = "exited" => locals.i - 1 = Len(RENAME_MAP)
        /\ (/\ "previous" \in DOMAIN locals
            /\ locals.previous.script = "standardize_filenames"
            /\ locals.previous.errors = 0) =>
               (fs = fsAtStart /\ locals.renamed_count = 0)

\* A second run has ended, directly after a run that renamed files without
\* an error, and a first run has ended having renamed, skipped and failed.
C20_Witness ==
    /\ script = "standardize_filenames" /\ pc = "exited"
    /\ "previous" \in DOMAIN locals
    /\ locals.previous.script = "standardize_filenames"
    /\ locals.previous.errors = 0
    /\ locals.previous.changed
    /\ locals.skipped_count = Len(RENAME_MAP)
    /\ Printed("skipping_target_exists")

(***************************************************************************)
(* split_claims.py                                                         *)
(*                                                                         *)
(* A file is a sequence of lines, each ending with a newline.  A line that *)
(* matches ^## (C_\d+): is a "claim" line, a line with "**Category**: x"   *)
(* is a "category" line; category names, claim ids and file names are      *)
(* text, so that sorting and the file-name rule are computed.              *)
(***************************************************************************)

\* The characters of names, in the order of their code points.
Ascii ==
    <<" ", ".">> \o [d \in 1..10 |-> Digit(d - 1)] \o
    <<"A", "B", "C", "D", "E", "F", "G", "H", "I", "J", "K", "L", "M", "N", "O", "P", "Q", "R", "S", "T", "U", "V", "W", "X", "Y", "Z">> \o
    <<"_">> \o
    <<"a", "b", "c", "d", "e", "f", "g", "h", "i", "j", "k", "l", "m", "n", "o", "p", "q", "r", "s", "t", "u", "v", "w", "x", "y", "z">>

Ord(c) == CHOOSE k \in 1..Len(Ascii) : Ascii[k] = c

\* str.lower() of one character: the letters are 26 apart around "_".
LowerChar(c) ==
    IF Ord(c) \in Ord("A")..Ord("Z") THEN Ascii[Ord(c) - Ord("A") + Ord("a")] ELSE c

\* category.lower().replace(' ', '_')
LowerUnderscore(s) ==
    [k \in 1..Len(s) |-> IF s[k] = " " THEN "_" ELSE LowerChar(s[k])]

\* Python's < on strings.
RECURSIVE StrLess(_, _)
StrLess(a, b) ==
    IF b = <<>> THEN FALSE
    ELSE IF a = <<>> THEN TRUE
    ELSE IF Head(a) # Head(b) THEN Ord(Head(a)) < Ord(Head(b))
    ELSE StrLess(Tail(a), Tail(b))

\* sorted() of a set of strings.
RECURSIVE SortedStrings(_)
SortedStrings(S) ==
    IF S = {} THEN <<>>
    ELSE LET least == CHOOSE x \in S : \A y \in S \ {x} : StrLess(x, y)
         IN <<least>> \o SortedStrings(S \ {least})

\* int() of a string of digits.
RECURSIVE ParseInt(_)
ParseInt(s) ==
    IF s = <<>> THEN 0
    ELSE 10 * ParseInt(SubSeq(s, 1, Len(s) - 1))
         + (CHOOSE d \in 0..9 : Digit(d) = s[Len(s)])

input_file == "01_Knowledge_Base/claims_and_evidence.md"

output_dir == "01_Knowledge_Base/claims"

ClaimLine(claim_id, rest) == [kind |-> "claim", id |-> claim_id, rest |-> rest]

CategoryLine(name) == [kind |-> "category", name |-> name]

TextLine(text) == [kind |-> "text", text |-> text]

\* re.split(claim_pattern, content): the positions of the claim lines, the
\* header before the first of them, and the section a claim line starts.
ClaimStarts(lines) == {i \in 1..Len(lines) : lines[i].kind = "claim"}

HeaderOf(lines) ==
    LET starts == ClaimStarts(lines)
    IN IF starts = {} THEN lines
       ELSE SubSeq(lines, 1, (CHOOSE i \in starts : \A j \in starts : i <= j) - 1)

SectionAt(lines, i) ==
    LET later == {j \in ClaimStarts(lines) : j > i}
        end == IF later = {} THEN Len(lines)
               ELSE (CHOOSE j \in later : \A k \in later : j <= k) - 1
    IN SubSeq(lines, i, end)

\* re.search of the category pattern in a section: the first category line.
CategoryLines(section) == {k \in 1..Len(section) : section[k].kind = "category"}

HasCategory(section) == CategoryLines(section) # {}

CategoryOf(section) ==
    section[CHOOSE k \in CategoryLines(section) :
                \A j \in CategoryLines(section) : k <= j].name

\* parse_claims_file: the header, and for each category found the sections
\* with that category, keyed here by claim id (the ids of a file differ).
ParseClaimsFile(lines) ==
    LET kept == {SectionAt(lines, i) : i \in ClaimStarts(lines)}
        found == {s \in kept : HasCategory(s)}
    IN [header |-> HeaderOf(lines),
        claims_by_category |->
            [category \in {CategoryOf(s) : s \in found} |->
                LET mine == {s \in found : CategoryOf(s) = category}
                IN [claim_id \in {s[1].id : s \in mine} |->
                        CHOOSE s \in mine : s[1].id = claim_id]]]

category_to_filename ==
    << <<<<"M", "e", "t", "h", "o", "d">>,
         <<"m", "e", "t", "h", "o", "d", "s", ".", "m", "d">>>>,
       <<<<"R", "e", "s", "u", "l", "t">>,
         <<"r", "e", "s", "u", "l", "t", "s", ".", "m", "d">>>>,
       <<<<"C", "h", "a", "l", "l", "e", "n", "g", "e">>,
         <<"c", "h", "a", "l", "l", "e", "n", "g", "e", "s", ".", "m", "d">>>>,
       <<<<"D", "a", "t", "a", " ", "S", "o", "u", "r", "c", "e">>,
         <<"d", "a", "t", "a", "_", "s", "o", "u", "r", "c", "e", "s", ".", "m", "d">>>>,
       <<<<"D", "a", "t", "a", " ", "T", "r", "e", "n", "d">>,
         <<"d", "a", "t", "a", "_", "t", "r", "e", "n", "d", "s", ".", "m", "d">>>>,
       <<<<"A", "p", "p", "l", "i", "c", "a", "t", "i", "o", "n">>,
         <<"a", "p", "p", "l", "i", "c", "a", "t", "i", "o", "n", "s", ".", "m", "d">>>>,
       <<<<"I", "m", "p", "a", "c", "t">>,
         <<"i", "m", "p", "a", "c", "t", "s", ".", "m", "d">>>>,
       <<<<"P", "h", "e", "n", "o", "m", "e", "n", "o", "n">>,
         <<"p", "h", "e", "n", "o", "m", "e", "n", "a", ".", "m", "d">>>> >>

\* category_to_filename.get(category, f"{category.lower().replace(' ', '_')}.md")
CategoryFilename(category) ==
    LET known == {j \in 1..Len(category_to_filename) :
                     category_to_filename[j][1] = category}
    IN IF known # {} THEN category_to_filename[CHOOSE j \in known : TRUE][2]
       ELSE LowerUnderscore(category) \o <<".", "m", "d">>

\* The content create_category_files writes for one category: the file's
\* header, then each claim, sorted by claim id as strings, and a rule.
RECURSIVE ClaimsBlock(_, _)
ClaimsBlock(claims, claim_ids) ==
    IF claim_ids = <<>> THEN <<>>
    ELSE claims[Head(claim_ids)]
         \o <<TextLine(""), TextLine("---"), TextLine("")>>
         \o ClaimsBlock(claims, Tail(claim_ids))

CategoryFileContent(category, claims) ==
    << [kind |-> "title", category |-> category], TextLine(""),
       [kind |-> "intro", category |-> category], TextLine(""),
       TextLine("---"), TextLine("") >>
    \o ClaimsBlock(claims, SortedStrings(DOMAIN claims))

\* files_created[category]
FileInfo(category, claims) ==
    [filename |-> CategoryFilename(category),
     count |-> Cardinality(DOMAIN claims),
     claim_ids |-> SortedStrings(DOMAIN claims)]

\* The number after the underscore of a claim id: int(x[0].split('_')[1]).
IdNumber(claim_id) == ParseInt(SubSeq(claim_id, 3, Len(claim_id)))

\* all_claims.sort(key=...) of the (claim_id, category, filename) entries.
RECURSIVE SortedByIdNumber(_)
SortedByIdNumber(S) ==
    IF S = {} THEN <<>>
    ELSE LET least == CHOOSE x \in S :
                          \A y \in S : IdNumber(x.claim_id) <= IdNumber(y.claim_id)
         IN <<least>> \o SortedByIdNumber(S \ {least})

\* The content create_master_index writes: the header of the input, the
\* table of the categories (sorted), the table of the claims (by number) and
\* the notes.
MasterIndexContent(header, files_created) ==
    LET categories == SortedStrings(DOMAIN files_created)
        all_claims ==
            UNION {{[kind |-> "claim_row",
                     claim_id |-> files_created[c].claim_ids[k], category |-> c,
                     filename |-> files_created[c].filename] :
                        k \in 1..Len(files_created[c].claim_ids)} :
                   c \in DOMAIN files_created}
    IN header
       \o <<TextLine(""), TextLine("## Claim Categories and Files"), TextLine(""),
            TextLine("Claims have been organized"), TextLine(""),
            TextLine("| Category | File | Claim Count | Claim IDs |"),
            TextLine("|---|---|---|---|")>>
       \o [k \in 1..Len(categories) |->
              LET info == files_created[categories[k]]
              IN [kind |-> "category_row", category |-> categories[k],
                  filename |-> info.filename, count |-> info.count,
                  first |-> info.claim_ids[1],
                  last |-> info.claim_ids[Len(info.claim_ids)]]]
       \o <<TextLine(""), TextLine("## Quick Reference"), TextLine(""),
            TextLine("| Claim ID | Category | File |"), TextLine("|---|---|---|")>>
       \o SortedByIdNumber(all_claims)
       \o <<TextLine(""), TextLine("---"), TextLine(""), TextLine("## Notes"),
            TextLine(""), TextLine("- note 1"), TextLine("- note 2"),
            TextLine("- note 3")>>

\* main up to the first write: the input is read and parsed (a missing input
\* file is an uncaught FileNotFoundError), the categories are listed and the
\* output directory is made.
SplitParse ==
    /\ pc = "start" /\ script = "split_claims"
    /\ IF input_file \notin DOMAIN fs
       THEN /\ Exit(1, <<"parsing", "traceback">>, net)
            /\ UNCHANGED <<fs, locals>>
       ELSE LET parsed == ParseClaimsFile(fs[input_file])
            IN /\ locals' = [header |-> parsed.header,
                             claims_by_category |-> parsed.claims_by_category,
                             todo |-> SortedStrings(DOMAIN parsed.claims_by_category),
                             files_created |-> EmptyDict]
               /\ fs' = IF output_dir \in DOMAIN fs THEN fs
                        ELSE Update(fs, [d \in {output_dir} |-> EmptyDict])
               /\ pc' = "create_category_files"
               /\ out' = out \o <<"parsing", "found", "creating_category_files">>
               /\ UNCHANGED <<exitStatus, net>>
    /\ UNCHANGED <<script, env, args, kwargs, call, runs, remote, reported,
                   pureVars, fsAtStart>>

\* create_category_files: one iteration of its loop over the sorted
\* categories writes the category's file.
SplitCreateCategoryFile ==
    /\ pc = "create_category_files" /\ locals.todo # <<>>
    /\ LET category == Head(locals.todo)
           claims == locals.claims_by_category[category]
           filename == CategoryFilename(category)
       IN /\ fs' = [fs EXCEPT ![output_dir] =
                       Update(@, [f \in {filename} |->
                                     CategoryFileContent(category, claims)])]
          /\ locals' = [locals EXCEPT
                          !.todo = Tail(@),
                          !.files_created =
                              Update(@, [c \in {category} |-> FileInfo(category, claims)])]
    /\ out' = out \o <<"created">>
    /\ UNCHANGED <<script, pc, env, args, kwargs, call, net, exitStatus, runs,
                   remote, reported, pureVars, fsAtStart>>

\* create_master_index and the end of main: the input file is overwritten.
SplitCreateMasterIndex ==
    /\ pc = "create_category_files" /\ locals.todo = <<>>
    /\ fs' = [fs EXCEPT ![input_file] =
                 MasterIndexContent(locals.header, locals.files_created)]
    /\ Exit(0, <<"creating_master_index", "created_master_index", "done">>, net)
    /\ UNCHANGED <<script, env, args, kwargs, call, runs, remote, reported,
                   pureVars, fsAtStart, locals>>

\* How many claim sections an input file has at most.
MaxClaims == 2

ClaimIds == {<<"C", "_", "1">>, <<"C", "_", "2">>, <<"C", "_", "1", "0">>}

\* Category names: two with an entry in category_to_filename, two without.
SplitCategories ==
    {<<"M", "e", "t", "h", "o", "d">>,
     <<"D", "a", "t", "a", " ", "T", "r", "e", "n", "d">>,
     <<"d", "a", "t", "a", "_", "t", "r", "e", "n", "d", "s">>,
     <<"N", "e", "w", " ", "C", "a", "t">>}

\* A claim section: the claim line, its category line or none, a quote.
SplitSections ==
    {<<ClaimLine(id, "title")>> \o c \o <<TextLine("quote")>> :
        id \in ClaimIds,
        c \in {<<>>} \cup {<<CategoryLine(name)>> : name \in SplitCategories}}

\* The input files: an optional header line, then claim sections with ids
\* that differ.
RECURSIVE Flatten(_)
Flatten(seqs) == IF seqs = <<>> THEN <<>> ELSE Head(seqs) \o Flatten(Tail(seqs))

SplitDocuments ==
    {h \o Flatten(ss) :
        h \in {<<>>, <<TextLine("# Claims and Evidence")>>},
        ss \in {x \in SeqsOf(SplitSections, 0, MaxClaims) :
                   \A i, j \in 1..Len(x) : i # j => x[i][1].id # x[j][1].id}}

SplitInit ==
    /\ script = "split_claims"
    /\ pc = "start"
    /\ env = EmptyDict
    /\ args = EmptyDict
    /\ kwargs = EmptyDict
    /\ call = EmptyDict
    /\ net = <<>>
    /\ out = <<>>
    /\ exitStatus = Running
    /\ runs = 1
    /\ remote = 0
    /\ reported = 0
    /\ pIn = EmptyDict
    /\ pOut = [done |-> FALSE]
    /\ fs \in {EmptyDict} \cup {[f \in {input_file} |-> d] : d \in SplitDocuments}
    /\ fsAtStart = fs
    /\ locals = EmptyDict

SplitNext ==
    \/ SplitParse
    \/ SplitCreateCategoryFile
    \/ SplitCreateMasterIndex
    \/ Restart

SpecSplit == SplitInit /\ [][SplitNext]_vars

(***************************************************************************)
(* Claims about split_claims.py, checked under SpecSplit                   *)
(***************************************************************************)

\* The lines of the section are in the file, in one piece.
Occurs(section, file) ==
    \E p \in 1..Len(file) :
        /\ p + Len(section) - 1 <= Len(file)
        /\ SubSeq(file, p, p + Len(section) - 1) = section

\* The first run of split_claims has ended normally.
SplitDone == script = "split_claims" /\ pc = "exited" /\ exitStatus = 0

\* The claim sections of the file the run read.
OriginalSections ==
    {SectionAt(fsAtStart[input_file], i) : i \in ClaimStarts(fsAtStart[input_file])}

\* C17: after a run, each claim section of the input that has a category
\* line is in exactly one category file, the file of its category, and has
\* exactly one row in the master index's table of claims; the category files
\* together hold as many claim sections as were parsed; and two different
\* categories have different files.
C17_EachSectionInItsCategoryFile ==
    (SplitDone /\ runs = 1) =>
        LET parsed == {s \in OriginalSections : HasCategory(s)}
            files == fs[output_dir]
            index == fs[input_file]
        IN /\ \A s \in parsed :
                 /\ {f \in DOMAIN files : Occurs(s, files[f])}
                       = {CategoryFilename(CategoryOf(s))}
                 /\ Cardinality({k \in 1..Len(index) :
                        /\ index[k].kind = "claim_row"
                        /\ index[k].claim_id = s[1].id}) = 1
           /\ Cardinality(UNION {{<<f, k>> : k \in ClaimStarts(files[f])} :
                                    f \in DOMAIN files})
                 = Cardinality(parsed)
           /\ \A s, t \in parsed :
                 CategoryOf(s) # CategoryOf(t) =>
                     CategoryFilename(CategoryOf(s)) # CategoryFilename(CategoryOf(t))

\* C18: after a run has overwritten the input file, every claim section of
\* the original, with or without a category line, is in a file the run
\* wrote: a category file or the master index.
C18_NoSectionLost ==
    (SplitDone /\ runs = 1) =>
        \A s \in OriginalSections :
            \/ Occurs(s, fs[input_file])
            \/ \E f \in DOMAIN fs[output_dir] : Occurs(s, fs[output_dir][f])

\* C19: a second run, on the files the first run produced, leaves the master
\* index and every category file as they were after the first run.
C19_SecondRunChangesNothing ==
    (SplitDone /\ runs = 2) => fs = fsAtStart

(***************************************************************************)
(* call_zotero_mcp.py's result file, checked under SpecRemote              *)
(***************************************************************************)

\* The query file named on the command line is JSON, an object, and has a
\* non-empty query.
C21_QueryGiven ==
    /\ Len(args.argv) = 3
    /\ args.argv[2] \in DOMAIN fsAtStart
    /\ fsAtStart[args.argv[2]].json
    /\ fsAtStart[args.argv[2]].value.t = "dict"
    /\ Truthy(Get(fsAtStart[args.argv[2]].value.fields, "query", <<>>))

\* The search of this run returned parsed results that main could report.
C21_Success ==
    /\ Len(net) = 1 /\ net[1].status = "ok"
    /\ LastResult(net[1].response).ret
    /\ LastResult(net[1].response).value.t \in {"list", "dict"}

\* C21: when call_zotero_mcp.py has exited after reading a query, the result
\* file exists: it holds the parsed results when the search succeeded, and
\* the empty list after a timeout, a missing command, an output without a
\* parsable result or any other error; without a readable query the exit
\* status is 1 and no file was written.
C21_ResultFileAlwaysWritten ==
    (script = "call_zotero_mcp" /\ pc = "exited") =>
        IF C21_QueryGiven
        THEN /\ args.argv[3] \in DOMAIN fs
             /\ fs[args.argv[3]] =
                   (IF C21_Success THEN JsonText(LastResult(net[1].response).value)
                    ELSE JsonText(JList(<<>>)))
             /\ C21_Success => exitStatus = 0
        ELSE exitStatus = 1 /\ fs = fsAtStart /\ net = <<>>

C21_Witness ==
    /\ script = "call_zotero_mcp" /\ pc = "exited" /\ exitStatus = 0
    /\ C21_QueryGiven /\ C21_Success
    /\ fs[args.argv[3]] = JsonText(JList(<<"hit">>))

(***************************************************************************)
(* PubMed authors on the --pmid path, checked under Spec                   *)
(***************************************************************************)

\* The author names of the PubMed response this run received.
C25_Names ==
    LET body == net[1].response
    IN IF "result" \in DOMAIN body /\ args["pmid"] \in DOMAIN body["result"]
       THEN PubmedAuthorsList(Get(body["result"][args["pmid"]], "authors", <<>>))
       ELSE <<>>

\* C25: on the --pmid path, with no --authors flag, an author the response
\* names "Surname Initials" is submitted as the creator whose lastName is
\* the surname and whose firstName is the initials.
C25_SurnameIsLastName ==
    (/\ script = "add_paper"
     /\ net # <<>> /\ net[1].svc = "pubmed" /\ net[1].status = "ok"
     /\ ~Truthy(Flag(args, "authors"))) =>
        \A i \in Posts :
            \A k \in 1..Len(C25_Names) :
                LET parts == SplitWs(C25_Names[k])
                    creators == net[i].payload[1].creators
                IN Len(parts) = 2 =>
                      /\ k <= Len(creators)
                      /\ creators[k].lastName = parts[1]
                      /\ creators[k].firstName = parts[2]

(***************************************************************************)
(* extract_zotero_fulltexts.py                                             *)
(*                                                                         *)
(* fs[zotero_storage] maps each directory of the storage to the PDFs in    *)
(* it, fs[literature_dir] is the set of the names (without ".txt") of the  *)
(* text files there; a missing key is a missing directory.  remote is the  *)
(* list of the items the named collection has in Zotero.                   *)
(***************************************************************************)

\* How many item keys --items is given at most.
MaxKeys == 2

zotero_storage == "Zotero/storage"

\* --collection or --items, with or without --dry-run, or neither.
ExtractArgs ==
    {Update(Update(c, i), [dry_run |-> d]) :
        c \in Opt("collection", {<<"B">>}),
        i \in Opt("items", SeqsOf({<<"N">>, <<"K">>, <<"N", "K">>}, 1, MaxKeys)),
        d \in BOOLEAN}

\* The two directories before the run.
ExtractFileSystems ==
    {Update(st, lit) :
        st \in {EmptyDict} \cup
               {[z \in {zotero_storage} |-> [dir \in dirs |-> pdfs]] :
                   dirs \in SUBSET {<<"N">>, <<"x", "K">>},
                   pdfs \in {<<>>, <<"a.pdf">>, <<"a.pdf", "b.pdf">>}},
        lit \in {EmptyDict} \cup
                {[l \in {literature_dir} |-> names] :
                    names \in SUBSET {<<"K">>, <<"N", "_", "a">>}}}

\* find_pdf_by_attachment_key: the PDFs pdfs[0] can be (glob gives no
\* order), none when the directory is missing or has no PDF.
FindPdfByAttachmentKey(attachment_key) ==
    IF attachment_key \in DOMAIN fs[zotero_storage]
    THEN {[dir |-> attachment_key, pdf |-> fs[zotero_storage][attachment_key][k]] :
             k \in 1..Len(fs[zotero_storage][attachment_key])}
    ELSE {}

\* find_pdf_by_item_key: a PDF of the directory named by the key, else any
\* PDF whose parent path contains the key.
FindPdfByItemKey(item_key) ==
    IF FindPdfByAttachmentKey(item_key) # {}
    THEN FindPdfByAttachmentKey(item_key)
    ELSE UNION {FindPdfByAttachmentKey(dir) :
                   dir \in {d \in DOMAIN fs[zotero_storage] :
                               Occurs(item_key, <<"Z", "/">> \o d)}}

\* Mutant: only a text file named exactly by the key counts.
CheckAlreadyExtracted_ExactName(item_key) ==
    {name \in fs[literature_dir] : name = item_key}

\* check_already_extracted: glob(f"*{item_key}*.txt")
CheckAlreadyExtracted(item_key) ==
    {name \in fs[literature_dir] : Occurs(item_key, name)}

\* process_item: the (status, pdf_path) results it can return.
ProcessItem(item_key, attachment_key) ==
    IF CheckAlreadyExtracted(item_key) # {}
    THEN {[status |-> "skipped"]}
    ELSE LET by_attachment == IF attachment_key # None
                              THEN FindPdfByAttachmentKey(attachment_key) ELSE {}
             pdf_paths == IF by_attachment # {} THEN by_attachment
                          ELSE FindPdfByItemKey(item_key)
         IN IF pdf_paths = {} THEN {[status |-> "not_found"]}
            ELSE {[status |-> "found", pdf_path |-> p] : p \in pdf_paths}

\* get_collection_items_via_mcp
GetCollectionItemsViaMcp(collection_name) == <<>>

\* main up to the loop over the items: the arguments are checked, the
\* extractor is constructed (the output directory is made before anything
\* else), and the item keys to go through are fetched.  The PDF names of the
\* model do not have the "Author - YYYY - Title.pdf" form.
ExtractMain ==
    /\ pc = "start" /\ script = "extract_zotero_fulltexts"
    /\ IF ~("collection" \in DOMAIN args) /\ ~("items" \in DOMAIN args)
       THEN /\ Exit(2, <<"must_specify_collection_or_items">>, net)
            /\ UNCHANGED <<fs, locals>>
       ELSE /\ fs' = IF literature_dir \in DOMAIN fs THEN fs
                     ELSE Update(fs, [l \in {literature_dir} |-> {}])
            /\ IF zotero_storage \notin DOMAIN fs
               THEN /\ Exit(1, <<"error", "traceback">>, net)
                    /\ locals' = locals
               ELSE LET items == IF "items" \in DOMAIN args
                                 THEN [k \in 1..Len(args.items) |-> [key |-> args.items[k]]]
                                 ELSE GetCollectionItemsViaMcp(args.collection)
                    IN /\ pc' = "loop" /\ exitStatus' = exitStatus /\ net' = net
                       /\ out' = out \o (IF items = <<>>
                                         THEN <<"mcp_tools_not_available">> ELSE <<>>)
                       /\ locals' = [i |-> 1,
                                     item_keys |-> [k \in 1..Len(items) |-> items[k].key],
                                     results |-> [processed |-> <<>>, skipped |-> <<>>,
                                                  not_found |-> <<>>, errors |-> <<>>]]
    /\ UNCHANGED <<script, env, args, kwargs, call, runs, remote, reported,
                   pureVars, fsAtStart>>

\* One turn of the loop of process_item_keys or of process_collection.
ExtractProcessItem ==
    /\ pc = "loop" /\ script = "extract_zotero_fulltexts"
    /\ locals.i <= Len(locals.item_keys)
    /\ LET item_key == locals.item_keys[locals.i]
       IN \E r \in ProcessItem(item_key, None) :
            /\ locals' = [locals EXCEPT
                  !.i = @ + 1,
                  !.results.skipped =
                      IF r.status = "skipped" THEN Append(@, [key |-> item_key]) ELSE @,
                  !.results.not_found =
                      IF r.status = "not_found" THEN Append(@, [key |-> item_key]) ELSE @,
                  !.results.processed =
                      IF r.status = "found"
                      THEN Append(@, [key |-> item_key, pdf_path |-> r.pdf_path])
                      ELSE @]
            /\ out' = Append(out, r.status)
    /\ UNCHANGED <<script, pc, env, args, kwargs, call, net, exitStatus, runs,
                   remote, reported, pureVars, fs, fsAtStart>>

\* print_summary and the end of main.
ExtractSummary ==
    /\ pc = "loop" /\ script = "extract_zotero_fulltexts"
    /\ locals.i > Len(locals.item_keys)
    /\ Exit(0, <<"summary">> \o
               (IF locals.results.processed # <<>>
                THEN (IF args.dry_run THEN <<"this_was_a_dry_run">> ELSE <<>>)
                     \o <<"next_steps">>
                ELSE <<>>), net)
    /\ UNCHANGED <<script, env, args, kwargs, call, runs, remote, reported,
                   pureVars, fileVars>>

ExtractInit ==
    /\ script = "extract_zotero_fulltexts"
    /\ pc = "start"
    /\ env = EmptyDict
    /\ args \in ExtractArgs
    /\ kwargs = EmptyDict
    /\ call = EmptyDict
    /\ net = <<>>
    /\ out = <<>>
    /\ exitStatus = Running
    /\ runs = 1
    /\ remote \in {<<>>, <<[key |-> <<"N">>]>>,
                  <<[key |-> <<"N">>], [key |-> <<"K">>]>>}
    /\ reported = 0
    /\ pIn = EmptyDict
    /\ pOut = [done |-> FALSE]
    /\ fs \in ExtractFileSystems
    /\ fsAtStart = fs
    /\ locals = EmptyDict

ExtractNext ==
    \/ ExtractMain
    \/ ExtractProcessItem
    \/ ExtractSummary

SpecExtract == ExtractInit /\ [][ExtractNext]_vars

(***************************************************************************)
(* Claims about extract_zotero_fulltexts.py                                *)
(***************************************************************************)

\* The list a key belongs in, read off the two directories.
C24_ListOf(item_key) ==
    IF \E name \in fs[literature_dir] : Occurs(item_key, name)
    THEN "skipped"
    ELSE IF \E dir \in DOMAIN fs[zotero_storage] :
                /\ fs[zotero_storage][dir] # <<>>
                /\ dir = item_key \/ Occurs(item_key, <<"Z", "/">> \o dir)
         THEN "processed"
         ELSE "not_found"

\* The keys among the first n of keys that belong in the list.
RECURSIVE C24_Expected(_, _, _)
C24_Expected(keys, n, list) ==
    IF n = 0 THEN <<>>
    ELSE C24_Expected(keys, n - 1, list) \o
         (IF C24_ListOf(keys[n]) = list THEN <<keys[n]>> ELSE <<>>)

\* A run with --items is in, or has left, the loop of process_item_keys.
C24_InItemKeys ==
    /\ script = "extract_zotero_fulltexts"
    /\ "items" \in DOMAIN args
    /\ "results" \in DOMAIN locals

\* C24: process_item_keys puts every occurrence of an input key in exactly
\* one of processed, skipped and not_found, and none in errors: in skipped
\* when a text file whose name contains the key exists, else in processed
\* when a PDF is found for the key, else in not_found; each list holds its
\* keys in the order of the input, so the three lengths sum to the number of
\* keys gone through.
C24_EveryKeyInExactlyOneList ==
    C24_InItemKeys =>
        /\ locals.results.errors = <<>>
        /\ \A list \in {"processed", "skipped", "not_found"} :
              [k \in 1..Len(locals.results[list]) |-> locals.results[list][k].key]
                  = C24_Expected(args.items, locals.i - 1, list)
        /\ Len(locals.results.processed) + Len(locals.results.skipped)
              + Len(locals.results.not_found) = locals.i - 1
        /\ pc = "exited" => locals.i - 1 = Len(args.items)

\* A run with --items has ended: its first key was skipped for a text file
\* whose name is longer than the key, its second was found a PDF in a
\* directory whose name is longer than the key.
C24_Witness ==
    /\ C24_InItemKeys /\ pc = "exited" /\ exitStatus = 0
    /\ args.items = <<<<"N">>, <<"K">>>>
    /\ Len(locals.results.skipped) = 1
    /\ Len(locals.results.processed) = 1
    /\ locals.results.processed[1].pdf_path.dir = <<"x", "K">>

\* C23: a run with --dry-run leaves the file system as it was: at no point
\* of the run does a directory or file exist, or hold something, that did
\* not before the run, the output directory included.
C23_DryRunLeavesFilesUnchanged ==
    (script = "extract_zotero_fulltexts" /\ args.dry_run) => fs = fsAtStart

\* The keys the result of the run lists under processed, skipped or
\* not_found.
C22_Listed ==
    UNION {{locals.results[list][k].key : k \in 1..Len(locals.results[list])} :
              list \in {"processed", "skipped", "not_found"}}

\* C22: when process_collection has returned for a collection that has at
\* least one item, its result lists every item of the collection under
\* processed, skipped or not_found.
C22_EveryCollectionItemListed ==
    (/\ script = "extract_zotero_fulltexts"
     /\ "items" \notin DOMAIN args
     /\ pc = "exited" /\ exitStatus = 0
     /\ remote # <<>>)
        => \A k \in 1..Len(remote) : remote[k].key \in C22_Listed

====
